---- MODULE Spec2Model ----
(***************************************************************************)
(* A model of the melon resource loader (src/src/loader/loader.js).        *)
(*                                                                         *)
(* The loader runs on one cooperative execution context.  A handler        *)
(* (preload, load, unload, a fetch completion, a timer) runs to its end    *)
(* before the next one starts.  preload is written out in its statements   *)
(* (the call of load, the addition of the returned weight, the final       *)
(* status check) because load may call back into onResourceLoaded before   *)
(* it returns; while preload is under way (cur.b # 0) nothing else runs.   *)
(***************************************************************************)
EXTENDS Integers, Sequences, FiniteSets, TLC

\* ------------------------------------------------------------------ bounds
MaxPreloads == 2      \* calls of preload in one run
MaxBatch    == 2      \* descriptors in one call of preload
MaxRequests == 2      \* descriptors registered through preload in one run
MaxLoads    == 1      \* direct calls of load in one run
MaxUnloads  == 1      \* calls of unload or unloadAll in one run
MaxSetBase  == 2      \* calls of setBaseURL in one run
MaxCsvLen   == 3      \* characters of a CSV text handed to decodeCSV
MaxBytes    == 8      \* bytes encoded in a base64 text handed to the decoder
MaxTile     == 2      \* largest tile column and row; columns and rows of a drawn map
MaxTileSize == 3      \* largest tile width and height of an orthogonal map
MaxCoord    == 4      \* largest magnitude of a drawing loop counter
MaxImage    == 6      \* largest width and height of a spritesheet image
MaxAtlases  == 2      \* descriptors handed to one Texture
MaxChildren == 3      \* child elements of the element handed to parse

\* ------------------------------------------------------------- descriptors
Names == {"a", "b"}

\* the kinds load() and unload() have a case for (loader.js 540-570)
Kinds == {"binary", "image", "json", "js", "tmx", "tsx", "audio", "fontface"}

\* a kind that falls to the default case
Types == Kinds \cup {"sprite"}

\* {name, type, data}: data is read by preloadTMX only
Descriptor == {d \in [name : Names, type : Types, data : BOOLEAN] :
                 d.data => d.type \in {"tmx", "tsx"}}

\* the descriptors handed to load directly: one name of each kind
Loadable == {d \in Descriptor : d.name = "a"}

\* the descriptors handed to preload
PreloadPool ==
    { [name |-> "a", type |-> "image",  data |-> FALSE],
      [name |-> "a", type |-> "tmx",    data |-> TRUE] }

BatchesOf(pool) == UNION {[1..n -> pool] : n \in 0..MaxBatch}

\* ------------------------------------------------------------------- state
VARIABLES
    imgList, tmxList, binList, jsonList,   \* the caches: names present
    audioTracks,                           \* the audio subsystem's cache
    resourceCount, loadCount, timerId,
    onload,          \* loader.onload: 0 (undefined) or the callback's id
    onProgress,      \* loader.onProgress is defined
    batches,         \* the calls of preload so far: [res, cb]
    cur,             \* the position inside a running preload
    inFlight,        \* fetches started and not yet reported back
    nextId,          \* next request id
    pollQueue,       \* pending 100ms timers, by batch, in arming order
    settleQueue,     \* pending 300ms timers: [b, fn], in arming order
    progressLog,     \* LOADER_PROGRESS emissions
    completionLog,   \* requests whose fetch delivered its data
    errorLog,        \* invocations of an onerror callback
    loadedLog,       \* invocations of a caller-supplied onload
    eventLog,        \* completion callbacks and LOADER_COMPLETE
    uncaught,        \* errors thrown out of a handler
    lastCall,        \* the last call of load or unload and its result
    nLoads, nUnloads,
    baseURL,         \* the base path registered for each kind, if any
    srcOf,           \* the src property of each descriptor object
    baseCall,        \* the calls of setBaseURL counted, and the last one
    cleared,         \* unloadAll ran with no fetch in flight, no load completed since
    call,            \* the call of a TMX function under examination
    result,          \* what that call returned
    draw,            \* the position inside a running drawTileLayer
    texture          \* the Texture under examination

caches   == <<imgList, tmxList, binList, jsonList, audioTracks>>
counters == <<resourceCount, loadCount>>
timers   == <<timerId, pollQueue, settleQueue>>
logs     == <<progressLog, completionLog, errorLog, loadedLog, eventLog, uncaught>>
vars == <<imgList, tmxList, binList, jsonList, audioTracks,
          resourceCount, loadCount, timerId, onload, onProgress, batches,
          cur, inFlight, nextId, pollQueue, settleQueue, progressLog,
          completionLog, errorLog, loadedLog, eventLog, uncaught, lastCall,
          nLoads, nUnloads, baseURL, srcOf, baseCall, cleared,
          call, result, draw, texture>>

\* the state of the loader
loader == <<imgList, tmxList, binList, jsonList, audioTracks,
            resourceCount, loadCount, timerId, onload, onProgress, batches,
            cur, inFlight, nextId, pollQueue, settleQueue, progressLog,
            completionLog, errorLog, loadedLog, eventLog, uncaught, lastCall,
            nLoads, nUnloads, baseURL, srcOf, baseCall, cleared>>

\* the state of the TMX functions, which the loader does not touch
outside == <<call, result, draw, texture>>

Idle == [b |-> 0, i |-> 0, phase |-> "idle"]

NoCall == [op |-> "none", res |-> [name |-> "a", type |-> "image", data |-> FALSE],
           threw |-> FALSE, weight |-> 0, had |-> FALSE, removed |-> FALSE]

\* a string is the sequence of its parts; a value that may be undefined
\* carries a flag
Undefined == [def |-> FALSE, str |-> <<>>]

\* no TMX function has been called, or none has returned yet
NoResult == [done |-> FALSE, threw |-> FALSE, error |-> "", value |-> <<>>]

\* no Texture has been constructed
NoTexture == [made |-> FALSE, format |-> "", sources |-> <<>>, atlases |-> <<>>,
              log |-> <<>>, cache |-> <<>>]

LoaderInit ==
    /\ imgList = {} /\ tmxList = {} /\ binList = {} /\ jsonList = {}
    /\ audioTracks = {}
    /\ resourceCount = 0 /\ loadCount = 0 /\ timerId = 0
    /\ onload = 0 /\ onProgress = FALSE
    /\ batches = <<>> /\ cur = Idle
    /\ inFlight = {} /\ nextId = 1
    /\ pollQueue = <<>> /\ settleQueue = <<>>
    /\ progressLog = <<>> /\ completionLog = <<>> /\ errorLog = <<>>
    /\ loadedLog = <<>> /\ eventLog = <<>> /\ uncaught = <<>>
    /\ lastCall = NoCall
    /\ nLoads = 0 /\ nUnloads = 0
    /\ baseURL = [t \in Types |-> Undefined]
    /\ srcOf = [d \in Descriptor |-> <<d.name>>]
    /\ baseCall = [n |-> 0, type |-> "", url |-> Undefined, font |-> Undefined]
    /\ cleared = FALSE

Init ==
    /\ LoaderInit
    /\ call = [fn |-> "none"] /\ result = NoResult /\ draw = [phase |-> "none"]
    /\ texture = NoTexture

\* ------------------------------------------------------------ audio subsystem
\* audio.load, once the sound has loaded: the track is kept under its name
audioLoad(name) == audioTracks \cup {name}

\* audio.unload(name): whether a track of that name was present
audioUnload(name) == name \in audioTracks

\* the tracks left by audio.unload(name)
audioRemove(name) == audioTracks \ {name}

\* the tracks left by audio.unloadAll()
audioUnloadAll == {}

\* ----------------------------------------------------------------- helpers
Without(q, b) == SelectSeq(q, LAMBDA x : x # b)

\* the cache a kind's fetcher writes to, as the value of all five
cacheInsert(type, name) ==
    /\ imgList'  = IF type = "image"  THEN imgList  \cup {name} ELSE imgList
    /\ binList'  = IF type = "binary" THEN binList  \cup {name} ELSE binList
    /\ jsonList' = IF type = "json"   THEN jsonList \cup {name} ELSE jsonList
    /\ tmxList'  = IF type \in {"tmx", "tsx"} THEN tmxList \cup {name} ELSE tmxList
    /\ audioTracks' = IF type = "audio" THEN audioLoad(name) ELSE audioTracks

\* ------------------------------------------------- callbacks bound by preload
\* the progress notification of onResourceLoaded
emitProgressGuarded(log, entry) == IF entry.cb THEN Append(log, entry) ELSE log

emitProgress(log, entry) == Append(log, entry)

\* loader.onResourceLoaded, bound to res[i] by preload
onResourceLoaded(req) ==
    /\ loadCount' = loadCount + 1
    /\ progressLog' = emitProgress(progressLog,
            [id |-> req.id, res |-> req.res, b |-> req.owner, num |-> loadCount + 1,
             den |-> resourceCount, cb |-> onProgress])

\* loader.onLoadingError, bound to res[i] by preload: it throws
onLoadingError(req) ==
    uncaught' = Append(uncaught, [msg |-> "Failed loading resource", id |-> req.id])

\* the onload handed to a fetcher: preload's or the caller's
callOnload(req) ==
    IF req.owner > 0
    THEN onResourceLoaded(req) /\ UNCHANGED loadedLog
    ELSE loadedLog' = Append(loadedLog, req.id) /\ UNCHANGED <<loadCount, progressLog>>

\* the onerror handed to a fetcher, called with arg
callOnerror(req, arg) ==
    /\ errorLog' = Append(errorLog, [id |-> req.id, name |-> req.res.name,
                                      arg |-> arg, owner |-> req.owner])
    /\ IF req.owner > 0 THEN onLoadingError(req) ELSE UNCHANGED uncaught

\* ------------------------------------------------------------------- load
\* what each fetcher hands to onerror when its fetch fails
errorArg(type) == IF type \in {"image", "binary"} THEN "event" ELSE "name"

\* the ways a started fetch can report back
Outcomes(type) ==
    {"ok", "fail"}
      \cup (IF type = "binary" THEN {"empty"} ELSE {})
      \cup (IF type \in {"json", "tmx", "tsx"} THEN {"badparse"} ELSE {})

\* the weight load returns for a kind it has a case for
loadWeightShort(type) == IF type = "fontface" THEN 0 ELSE 1

loadWeight(type) == 1

\* load: the url transformed "if necessary".  res.src is assigned the
\* result, and the fetcher requests res.src (loader.nocache is "", its
\* initial value; audio.load is handed res.src)
resolve(res) ==
    IF baseURL[res.type].def
    THEN baseURL[res.type].str \o srcOf[res]
    ELSE srcOf[res]

\* load(res, onload, onerror) for a recognized kind, onload/onerror being
\* preload's (owner > 0) or the caller's (owner = 0)
load(res, owner) ==
    LET req == [id |-> nextId, res |-> res, owner |-> owner, url |-> resolve(res)] IN
    /\ srcOf' = [srcOf EXCEPT ![res] = resolve(res)]
    /\ nextId' = nextId + 1
    /\ IF res.type \in {"tmx", "tsx"} /\ res.data
       THEN \* preloadTMX with inline data: addToTMXList, onload(), return
            /\ cacheInsert(res.type, res.name)
            /\ completionLog' = Append(completionLog, req)
            /\ callOnload(req)
            /\ cleared' = FALSE
            /\ UNCHANGED inFlight
       ELSE /\ inFlight' = inFlight \cup {req}
            /\ IF res.type = "image"
               THEN \* preloadImage: imgList[img.name] = new Image()
                    cacheInsert("image", res.name)
               ELSE UNCHANGED caches
            /\ UNCHANGED <<completionLog, loadCount, progressLog, loadedLog, cleared>>

\* ------------------------------------------------------------ checkLoadStatus
\* Timers of one delay fire in the order they were armed, so the pending
\* polls are a queue.  Each call of preload has at most one poll pending, and
\* timerId is the id of the timer armed last: the model keeps the batch that
\* timer polls for, and clearTimeout(timerId) removes that batch's pending
\* poll, if it has not fired yet.
statusMatchInverted(lc, rc) == lc # rc

statusMatchOffByOne(lc, rc) == lc + 1 >= rc

statusMatch(lc, rc) == lc = rc

hasCallbackAlways(cbParam, global) == TRUE

hasCallback(cbParam, global) == cbParam # 0 \/ global # 0

\* checkLoadStatus(onload) run for batch b with the queue q of pending polls
\* and the value glob of loader.onload
checkLoadStatus(b, cbParam, q, glob) ==
    IF statusMatch(loadCount, resourceCount)
    THEN IF hasCallback(cbParam, glob)
         THEN /\ pollQueue' = Without(q, timerId)
              /\ settleQueue' = Append(settleQueue,
                    [b |-> b, fn |-> IF cbParam # 0 THEN cbParam ELSE glob])
              /\ UNCHANGED <<timerId, uncaught>>
         ELSE /\ uncaught' = Append(uncaught, [msg |-> "no load callback defined", id |-> b])
              /\ pollQueue' = q
              /\ UNCHANGED <<timerId, settleQueue>>
    ELSE /\ pollQueue' = Append(q, b)
         /\ timerId' = b
         /\ UNCHANGED <<settleQueue, uncaught>>

\* the onload argument the b-th preload was called with
cbOf(b) == IF batches[b].cb THEN b ELSE 0

\* ----------------------------------------------------------------- actions
\* the table left by setBaseURL(type, url)
setBaseURLAll(type, url) ==
    IF type # "*"
    THEN [baseURL EXCEPT ![type] = url]
    ELSE [t \in Types |-> IF t \in Kinds THEN url ELSE baseURL[t]]

setBaseURL(type, url) ==
    IF type # "*"
    THEN [baseURL EXCEPT ![type] = url]
    ELSE [t \in Types |->
            IF t \in {"audio", "binary", "image", "json", "js", "tmx", "tsx"}
            THEN url ELSE baseURL[t]]

\* setBaseURL(type, url) is called
SetBaseURL(type, url) ==
    /\ cur = Idle
    /\ baseCall.n < MaxSetBase
    /\ baseURL' = setBaseURL(type, url)
    /\ baseCall' = [n |-> baseCall.n + 1, type |-> type, url |-> url,
                    font |-> baseURL["fontface"]]
    /\ UNCHANGED <<caches, counters, timers, logs, onload, onProgress, batches,
                   cur, inFlight, nextId, lastCall, nLoads, nUnloads, srcOf,
                   cleared, outside>>

\* loader.onProgress = fn, assigned by the program before it preloads
SetOnProgress ==
    /\ cur = Idle /\ ~onProgress /\ batches = <<>>
    /\ onProgress' = TRUE
    /\ UNCHANGED <<caches, counters, timers, logs, onload, batches, cur,
                   inFlight, nextId, lastCall, nLoads, nUnloads>>
    /\ UNCHANGED <<cleared, baseURL, baseCall, srcOf, outside>>

Registered == LET S[k \in 0..Len(batches)] ==
                    IF k = 0 THEN 0 ELSE S[k-1] + Len(batches[k].res)
              IN S[Len(batches)]

\* preload(res, onload) is called
Preload(res, cb) ==
    /\ cur = Idle
    /\ Len(batches) < MaxPreloads
    /\ Registered + Len(res) <= MaxRequests
    /\ batches' = Append(batches, [res |-> res, cb |-> cb])
    /\ cur' = [b |-> Len(batches) + 1, i |-> 1,
               phase |-> IF Len(res) = 0 THEN "finish" ELSE "load"]
    /\ UNCHANGED <<caches, counters, timers, logs, onload, onProgress,
                   inFlight, nextId, lastCall, nLoads, nUnloads>>
    /\ UNCHANGED <<cleared, baseURL, baseCall, srcOf, outside>>

\* preload: this.load(res[i], ...) returns
PreloadLoad ==
    /\ cur.phase = "load"
    /\ LET d == batches[cur.b].res[cur.i] IN
       /\ d.type \in Kinds
       /\ load(d, cur.b)
       /\ lastCall' = [op |-> "load", res |-> d, threw |-> FALSE,
                       weight |-> loadWeight(d.type), had |-> FALSE, removed |-> FALSE]
    /\ cur' = [cur EXCEPT !.phase = "add"]
    /\ UNCHANGED <<resourceCount, timers, errorLog, eventLog, uncaught, onload,
                   onProgress, batches, nLoads, nUnloads>>
    /\ UNCHANGED <<baseURL, baseCall, outside>>

\* preload: this.load(res[i], ...) throws, and preload with it
PreloadThrow ==
    /\ cur.phase = "load"
    /\ LET d == batches[cur.b].res[cur.i] IN
       /\ d.type \notin Kinds
       /\ srcOf' = [srcOf EXCEPT ![d] = resolve(d)]
       /\ lastCall' = [op |-> "load", res |-> d, threw |-> TRUE,
                       weight |-> 0, had |-> FALSE, removed |-> FALSE]
    /\ cur' = Idle
    /\ UNCHANGED <<caches, counters, timers, logs, onload, onProgress, batches,
                   inFlight, nextId, nLoads, nUnloads>>
    /\ UNCHANGED <<cleared, baseURL, baseCall, outside>>

\* preload: resourceCount += (the weight returned)
PreloadAdd ==
    /\ cur.phase = "add"
    /\ resourceCount' = resourceCount + lastCall.weight
    /\ cur' = IF cur.i < Len(batches[cur.b].res)
              THEN [cur EXCEPT !.i = cur.i + 1, !.phase = "load"]
              ELSE [cur EXCEPT !.phase = "finish"]
    /\ UNCHANGED <<caches, loadCount, timers, logs, onload, onProgress, batches,
                   inFlight, nextId, lastCall, nLoads, nUnloads>>
    /\ UNCHANGED <<cleared, baseURL, baseCall, srcOf, outside>>

\* preload: this.onload = onload (if given); checkLoadStatus(onload)
PreloadFinish ==
    /\ cur.phase = "finish"
    /\ onload' = IF batches[cur.b].cb THEN cur.b ELSE onload
    /\ checkLoadStatus(cur.b, cbOf(cur.b), pollQueue, onload')
    /\ cur' = Idle
    /\ UNCHANGED <<caches, counters, progressLog, completionLog, errorLog,
                   loadedLog, eventLog, onProgress, batches, inFlight, nextId,
                   lastCall, nLoads, nUnloads>>
    /\ UNCHANGED <<cleared, baseURL, baseCall, srcOf, outside>>

\* load(res, onload, onerror) called by the program with its own callbacks
Load(res) ==
    /\ cur = Idle
    /\ nLoads < MaxLoads
    /\ nLoads' = nLoads + 1
    /\ IF res.type \in Kinds
       THEN /\ load(res, 0)
            /\ lastCall' = [op |-> "load", res |-> res, threw |-> FALSE,
                            weight |-> loadWeight(res.type), had |-> FALSE, removed |-> FALSE]
       ELSE /\ srcOf' = [srcOf EXCEPT ![res] = resolve(res)]
            /\ lastCall' = [op |-> "load", res |-> res, threw |-> TRUE,
                            weight |-> 0, had |-> FALSE, removed |-> FALSE]
            /\ UNCHANGED <<caches, inFlight, nextId, completionLog, loadCount,
                           progressLog, loadedLog, cleared>>
    /\ UNCHANGED <<resourceCount, timers, errorLog, eventLog, uncaught, onload,
                   onProgress, batches, cur, nUnloads>>
    /\ UNCHANGED <<baseURL, baseCall, outside>>

\* a started fetch reports back
FetchDone(req, outcome) ==
    /\ cur = Idle
    /\ req \in inFlight
    /\ outcome \in Outcomes(req.res.type)
    /\ inFlight' = inFlight \ {req}
    /\ CASE outcome = "ok" ->
              \* the Image was put into imgList by preloadImage already; the
              \* other fetchers store their result now
              /\ IF req.res.type = "image"
                 THEN UNCHANGED caches
                 ELSE cacheInsert(req.res.type, req.res.name)
              /\ completionLog' = Append(completionLog, req)
              /\ callOnload(req)
              /\ cleared' = FALSE
              /\ UNCHANGED <<errorLog, uncaught>>
         [] outcome = "fail" ->
              /\ callOnerror(req, errorArg(req.res.type))
              /\ UNCHANGED <<caches, completionLog, loadCount, progressLog,
                             loadedLog, cleared>>
         [] outcome = "empty" ->
              \* preloadBinary: no response, neither callback
              UNCHANGED <<caches, completionLog, loadCount, progressLog,
                          loadedLog, errorLog, uncaught, cleared>>
         [] outcome = "badparse" ->
              \* JSON.parse / TMXUtils.parse / unsupported format throws
              /\ uncaught' = Append(uncaught, [msg |-> "parse", id |-> req.id])
              /\ UNCHANGED <<caches, completionLog, loadCount, progressLog,
                             loadedLog, errorLog, cleared>>
    /\ UNCHANGED <<resourceCount, timers, eventLog, onload, onProgress, batches,
                   cur, nextId, lastCall, nLoads, nUnloads, srcOf>>
    /\ UNCHANGED <<baseURL, baseCall, outside>>

\* the 100ms timer armed by checkLoadStatus fires
Poll ==
    /\ cur = Idle
    /\ pollQueue # <<>>
    /\ LET b == Head(pollQueue) IN
       checkLoadStatus(b, cbOf(b), Tail(pollQueue), onload)
    /\ UNCHANGED <<caches, counters, progressLog, completionLog, errorLog,
                   loadedLog, eventLog, onload, onProgress, batches, cur,
                   inFlight, nextId, lastCall, nLoads, nUnloads>>
    /\ UNCHANGED <<cleared, baseURL, baseCall, srcOf, outside>>

\* resources of the b-th preload that have reported progress
loadedOf(b) == Cardinality({k \in DOMAIN progressLog : progressLog[k].b = b})

\* the 300ms timer fires: callback(); event.emit(LOADER_COMPLETE)
Settle ==
    /\ cur = Idle
    /\ settleQueue # <<>>
    /\ LET s == Head(settleQueue)
           at(e) == [ev |-> e, b |-> s.b, fn |-> s.fn, lc |-> loadCount,
                     rc |-> resourceCount, nb |-> Len(batches),
                     busy |-> \E r \in inFlight : r.owner = s.b,
                     left |-> Len(batches[s.b].res) - loadedOf(s.b)]
       IN eventLog' = eventLog \o << at("callback"), at("LOADER_COMPLETE") >>
    /\ settleQueue' = Tail(settleQueue)
    /\ UNCHANGED <<caches, counters, timerId, pollQueue, progressLog,
                   completionLog, errorLog, loadedLog, uncaught, onload,
                   onProgress, batches, cur, inFlight, nextId, lastCall,
                   nLoads, nUnloads>>
    /\ UNCHANGED <<cleared, baseURL, baseCall, srcOf, outside>>

\* ----------------------------------------------------------------- unload
\* the cache unload looks into for a kind; js and fontface have none
cacheOf(type) ==
    CASE type = "binary" -> binList
      [] type = "image"  -> imgList
      [] type = "json"   -> jsonList
      [] type \in {"tmx", "tsx"} -> tmxList
      [] type = "audio"  -> audioTracks
      [] OTHER -> {}

\* what unload returns for a recognized kind
unloadResult(type, name) ==
    CASE type \in {"js", "fontface"} -> TRUE
      [] type = "audio" -> audioUnload(name)
      [] OTHER -> name \in cacheOf(type)

\* unload(res)
Unload(type, name) ==
    /\ cur = Idle
    /\ nUnloads < MaxUnloads
    /\ nUnloads' = nUnloads + 1
    /\ lastCall' = [op |-> "unload",
                    res |-> [name |-> name, type |-> type, data |-> FALSE],
                    threw |-> type \notin Kinds, weight |-> 0,
                    had |-> name \in cacheOf(type),
                    removed |-> type \in Kinds /\ unloadResult(type, name)]
    /\ binList'  = IF type = "binary" THEN binList  \ {name} ELSE binList
    /\ imgList'  = IF type = "image"  THEN imgList  \ {name} ELSE imgList
    /\ jsonList' = IF type = "json"   THEN jsonList \ {name} ELSE jsonList
    /\ tmxList'  = IF type \in {"tmx", "tsx"} THEN tmxList \ {name} ELSE tmxList
    /\ audioTracks' = IF type = "audio" THEN audioRemove(name) ELSE audioTracks
    /\ UNCHANGED <<counters, timers, logs, onload, onProgress, batches, cur,
                   inFlight, nextId, nLoads>>
    /\ UNCHANGED <<cleared, baseURL, baseCall, srcOf, outside>>

\* unloadAll(): unload is called for every name of binList, imgList,
\* tmxList (as kind "tmx") and jsonList; then audio.unloadAll()
UnloadAll ==
    /\ cur = Idle
    /\ nUnloads < MaxUnloads
    /\ nUnloads' = nUnloads + 1
    /\ lastCall' = [op |-> "unloadAll",
                    res |-> [name |-> "a", type |-> "tmx", data |-> FALSE],
                    threw |-> FALSE, weight |-> 0,
                    had |-> \E t \in Kinds : cacheOf(t) # {}, removed |-> TRUE]
    /\ binList'  = binList  \ {n \in Names : n \in binList}
    /\ imgList'  = imgList  \ {n \in Names : n \in imgList}
    /\ tmxList'  = tmxList  \ {n \in Names : n \in tmxList}
    /\ jsonList' = jsonList \ {n \in Names : n \in jsonList}
    /\ audioTracks' = audioUnloadAll
    /\ cleared' = (inFlight = {})
    /\ UNCHANGED <<counters, timers, logs, onload, onProgress, batches, cur,
                   inFlight, nextId, nLoads>>
    /\ UNCHANGED <<baseURL, baseCall, srcOf, outside>>

\* ----------------------------------------------------------------- getters
\* what a getter returns when the name is not in its cache
Null == [kind |-> "null", name |-> ""]

getTMX(elt) == IF elt \in tmxList THEN [kind |-> "tmx", name |-> elt] ELSE Null

getBinary(elt) == IF elt \in binList THEN [kind |-> "binary", name |-> elt] ELSE Null

\* the names of the model carry no directory and no extension, which is
\* what getBasename strips
getImage(image) == IF image \in imgList THEN [kind |-> "image", name |-> image] ELSE Null

getJSON(elt) == IF elt \in jsonList THEN [kind |-> "json", name |-> elt] ELSE Null

Next ==
    \/ SetOnProgress
    \/ \E res \in BatchesOf(PreloadPool), cb \in BOOLEAN : Preload(res, cb)
    \/ PreloadLoad
    \/ PreloadAdd
    \/ PreloadFinish
    \/ \E req \in inFlight, o \in {"ok", "fail"} : FetchDone(req, o)
    \/ Poll
    \/ Settle

\* the loader driven by preload: batches, fetches, polls, settle timers
Spec == Init /\ [][Next]_vars

\* the batches preloaded, before anything else, in the runs of direct load
\* and unload calls
LoadPool ==
    { [name |-> "a", type |-> "image",  data |-> FALSE],
      [name |-> "b", type |-> "sprite", data |-> FALSE] }

NextLoad ==
    \/ \E res \in [1..1 -> LoadPool] :
          batches = <<>> /\ nLoads = 0 /\ nUnloads = 0 /\ Preload(res, TRUE)
    \/ PreloadLoad
    \/ PreloadThrow
    \/ PreloadAdd
    \/ PreloadFinish
    \/ \E res \in Loadable : Load(res)
    \/ \E t \in Types, n \in Names : Unload(t, n)
    \/ \E req \in inFlight, o \in {"ok", "fail", "empty", "badparse"} : FetchDone(req, o)
    \/ Poll
    \/ Settle

\* the loader driven by direct load and unload calls, one batch preloaded
SpecLoad == Init /\ [][NextLoad]_vars

NextURL ==
    \/ \E t \in {"*", "image", "fontface"},
          u \in {[def |-> TRUE, str |-> <<"u/">>], [def |-> TRUE, str |-> <<"v/">>],
                 Undefined} : SetBaseURL(t, u)
    \/ \E res \in Loadable : Load(res)
    \/ \E req \in inFlight, o \in {"ok", "fail", "empty", "badparse"} : FetchDone(req, o)

\* the loader driven by setBaseURL and direct load calls
SpecURL == Init /\ [][NextURL]_vars

NextCache ==
    \/ \E res \in Loadable : Load(res)
    \/ \E req \in inFlight, o \in {"ok", "fail", "empty", "badparse"} : FetchDone(req, o)
    \/ \E t \in Kinds, n \in Names : Unload(t, n)
    \/ UnloadAll

\* the caches driven by direct load calls, unload and unloadAll
SpecCache == Init /\ [][NextCache]_vars

\* load(res, onload, onerror) called once more with the descriptor object of
\* the program's last load, after its MaxLoads other loads
LoadAgain ==
    /\ cur = Idle
    /\ nLoads = MaxLoads
    /\ lastCall.op \in {"load", "unload"} /\ lastCall.res.type \in Kinds
    /\ nLoads' = nLoads + 1
    /\ load(lastCall.res, 0)
    /\ lastCall' = [op |-> "load", res |-> lastCall.res, threw |-> FALSE,
                    weight |-> loadWeight(lastCall.res.type),
                    had |-> FALSE, removed |-> FALSE]
    /\ UNCHANGED <<resourceCount, timers, errorLog, eventLog, uncaught, onload,
                   onProgress, batches, cur, nUnloads>>
    /\ UNCHANGED <<baseURL, baseCall, outside>>

NextReload ==
    \/ \E t \in {"*", "image"},
          u \in {[def |-> TRUE, str |-> <<"u/">>], [def |-> TRUE, str |-> <<"v/">>]} :
          nLoads = 0 /\ SetBaseURL(t, u)
    \/ \E res \in {d \in Loadable : d.type \in {"image", "json", "fontface"}} : Load(res)
    \/ \E req \in inFlight, o \in {"ok", "fail"} : FetchDone(req, o)
    \/ \E t \in {"image", "json"} : Unload(t, "a")
    \/ LoadAgain

\* one descriptor loaded, perhaps unloaded, and loaded again, the base paths
\* having been registered before the first load
SpecReload == Init /\ [][NextReload]_vars

\* ======================================================================
\* TMXUtils (src/unnamed/part_000): tile data decoding
\* ======================================================================
\* A text is the sequence of its characters.
Returned(v) == [done |-> TRUE, threw |-> FALSE, error |-> "", value |-> v]

Thrown(e) == [done |-> TRUE, threw |-> TRUE, error |-> e, value |-> <<>>]

NaN == [nan |-> TRUE, num |-> 0]

Num(n) == [nan |-> FALSE, num |-> n]

\* String.prototype.trim
RECURSIVE trim(_)
trim(str) ==
    IF str = <<>> THEN str
    ELSE IF Head(str) \in {" ", "\n"} THEN trim(Tail(str))
    ELSE IF str[Len(str)] \in {" ", "\n"} THEN trim(SubSeq(str, 1, Len(str) - 1))
    ELSE str

\* the conversion of a text to a number (unary +, Number()): white space
\* around it is dropped, the empty text is 0, a text that is no numeric
\* literal is NaN.  The texts of the model hold no sign, point or exponent.
ToNumber(str) ==
    LET t == trim(str)
        digits == <<"0", "1", "2", "3", "4", "5", "6", "7", "8", "9">>
        val[k \in 0..Len(t)] ==
            IF k = 0 THEN 0
            ELSE 10 * val[k - 1] + (CHOOSE d \in DOMAIN digits : digits[d] = t[k]) - 1
    IN IF t = <<>> THEN Num(0)
       ELSE IF \A k \in DOMAIN t : \E d \in DOMAIN digits : digits[d] = t[k]
            THEN Num(val[Len(t)])
       ELSE NaN

\* ---------------------------------------------------------------- decodeCSV
\* String.prototype.replace(c, "") with a string pattern: the first c only
replaceFirst(str, c) ==
    IF \A i \in DOMAIN str : str[i] # c THEN str
    ELSE LET k == CHOOSE i \in DOMAIN str :
                     str[i] = c /\ \A j \in 1..(i - 1) : str[j] # c
         IN SubSeq(str, 1, k - 1) \o SubSeq(str, k + 1, Len(str))

\* String.prototype.split(c)
RECURSIVE split(_, _)
split(str, c) ==
    IF \A i \in DOMAIN str : str[i] # c THEN <<str>>
    ELSE LET k == CHOOSE i \in DOMAIN str :
                     str[i] = c /\ \A j \in 1..(i - 1) : str[j] # c
         IN <<SubSeq(str, 1, k - 1)>> \o split(SubSeq(str, k + 1, Len(str)), c)

decodeCSV(input) ==
    LET entries == split(trim(replaceFirst(input, "\n")), ",")
    IN [i \in DOMAIN entries |-> ToNumber(entries[i])]

\* ------------------------------------------------------ decodeBase64AsArray
B64Chars ==
    <<"A", "B", "C", "D", "E", "F", "G", "H", "I", "J", "K", "L", "M",
      "N", "O", "P", "Q", "R", "S", "T", "U", "V", "W", "X", "Y", "Z",
      "a", "b", "c", "d", "e", "f", "g", "h", "i", "j", "k", "l", "m",
      "n", "o", "p", "q", "r", "s", "t", "u", "v", "w", "x", "y", "z",
      "0", "1", "2", "3", "4", "5", "6", "7", "8", "9", "+", "/">>

\* input.replace(/[^A-Za-z0-9\+\/\=]/g, "")
stripNonB64(input) ==
    SelectSeq(input, LAMBDA c : c = "=" \/ \E i \in DOMAIN B64Chars : B64Chars[i] = c)

\* window.atob accepts the text: "=" stands at the end only, at most twice
\* and filling the length to a multiple of 4, and the length without it is
\* not 1 modulo 4
atobAccepts(str) ==
    LET u == SelectSeq(str, LAMBDA c : c # "=")
        pads == Len(str) - Len(u)
    IN /\ SubSeq(str, 1, Len(u)) = u
       /\ pads <= 2
       /\ pads > 0 => Len(str) % 4 = 0
       /\ Len(u) % 4 # 1

\* window.atob on an accepted text: each 4 characters are 3 bytes; 2 or 3
\* characters at the end are 1 or 2 bytes
atob(str) ==
    LET u == SelectSeq(str, LAMBDA c : c # "=")
        six(k) == (CHOOSE i \in DOMAIN B64Chars : B64Chars[i] = u[k]) - 1
        byte(m) ==
            LET at == 4 * ((m - 1) \div 3) IN
            CASE (m - 1) % 3 = 0 -> six(at + 1) * 4 + six(at + 2) \div 16
              [] (m - 1) % 3 = 1 -> (six(at + 2) % 16) * 16 + six(at + 3) \div 4
              [] (m - 1) % 3 = 2 -> (six(at + 3) % 4) * 64 + six(at + 4)
    IN [m \in 1..((Len(u) * 3) \div 4) |-> byte(m)]

\* A 32-bit quantity is kept as two 16-bit halves, hi * 2^16 + lo with
\* 0 <= lo < 2^16; hi is negative for a negative quantity.
Half == 65536

\* the store into an element of a Uint32Array: modulo 2^32
toUint32Unwrapped(w) == w

toUint32(w) == [hi |-> w.hi % Half, lo |-> w.lo]

\* ar[i] = 0; for (j = bytes - 1; j >= 0; --j) ar[i] += dec[i * bytes + j] << (j << 3)
\* with i counted from 1, after the steps j = bytes - 1 .. k
RECURSIVE packFrom(_, _, _, _)
packFrom(dec, i, bytes, k) ==
    LET byte == dec[(i - 1) * bytes + k + 1]
        \* byte << (k << 3), a signed 32-bit integer
        shl == CASE k = 0 -> [hi |-> 0, lo |-> byte]
                 [] k = 1 -> [hi |-> 0, lo |-> byte * 256]
                 [] k = 2 -> [hi |-> byte, lo |-> 0]
                 [] k = 3 -> [hi |-> IF byte >= 128 THEN byte * 256 - Half
                                     ELSE byte * 256,
                              lo |-> 0]
        add(a, b) == [hi |-> a.hi + b.hi + (a.lo + b.lo) \div Half,
                      lo |-> (a.lo + b.lo) % Half]
    IN IF k = bytes THEN toUint32([hi |-> 0, lo |-> 0])
       ELSE toUint32(add(packFrom(dec, i, bytes, k + 1), shl))

\* decodeBase64AsArray(input, bytes), bytes = 0 standing for the argument
\* left out.  The array has floor(dec.length / bytes) elements; the stores
\* past its end, for bytes left over, are dropped.
decodeBase64AsArray(input, bytesArg) ==
    LET bytes == IF bytesArg = 0 THEN 1 ELSE bytesArg
        str == stripNonB64(input)
        dec == atob(str)
    IN IF ~atobAccepts(str) THEN Thrown("InvalidCharacterError")
       ELSE Returned([i \in 1..(Len(dec) \div bytes) |-> packFrom(dec, i, bytes, 0)])

\* ------------------------------------------------------------------ decode
\* an argument left out
Absent == "absent"

decompress(data, format) ==
    Thrown("GZIP/ZLIB compressed TMX Tile Map not supported!")

decode(data, encodingArg, compressionArg) ==
    LET compression == IF compressionArg \in {Absent, ""} THEN "none" ELSE compressionArg
        encoding == IF encodingArg \in {Absent, ""} THEN "none" ELSE encodingArg
    IN CASE encoding = "csv" -> Returned(decodeCSV(data))
         [] encoding = "base64" ->
              LET decoded == decodeBase64AsArray(data, 4) IN
              IF decoded.threw THEN decoded
              ELSE IF compression = "none" THEN decoded
              ELSE decompress(decoded, compression)
         [] encoding = "none" -> Returned(data)
         [] encoding = "xml" ->
              Thrown("XML encoding is deprecated, use base64 instead")
         [] OTHER -> Thrown("Unknown layer encoding")

\* ------------------------------------------------------------------ inputs
TextsOver(chars, n) == UNION {[1..k -> chars] : k \in 0..n}

\* the base64 text of a sequence of bytes
btoa(b) ==
    LET at(k) == 3 * ((k - 1) \div 4)
        byte(m) == IF m <= Len(b) THEN b[m] ELSE 0
        char(k) ==
            CASE (k - 1) % 4 = 0 -> B64Chars[byte(at(k) + 1) \div 4 + 1]
              [] (k - 1) % 4 = 1 ->
                   B64Chars[(byte(at(k) + 1) % 4) * 16 + byte(at(k) + 2) \div 16 + 1]
              [] (k - 1) % 4 = 2 ->
                   IF at(k) + 2 > Len(b) THEN "="
                   ELSE B64Chars[(byte(at(k) + 2) % 16) * 4 + byte(at(k) + 3) \div 64 + 1]
              [] (k - 1) % 4 = 3 ->
                   IF at(k) + 3 > Len(b) THEN "="
                   ELSE B64Chars[(byte(at(k) + 3) % 64) + 1]
    IN [k \in 1..(4 * ((Len(b) + 2) \div 3)) |-> char(k)]

\* decodeCSV on every text of digits, commas, letters, blanks, line breaks
CsvCalls(n) ==
    {[fn |-> "decodeCSV", input |-> t] :
        t \in TextsOver({"1", "7", ",", "x", " ", "\n"}, n)}

\* decodeBase64AsArray on the tile data of a layer as the map file holds
\* it: the base64 text alone or between line breaks and blanks, of the
\* bytes 0 and 255 in every arrangement, of the tile index 1 and of the
\* tile index 0x92345678
B64Calls(n) ==
    {[fn |-> "decodeBase64AsArray", input |-> t, bytes |-> 4] :
        t \in UNION {{btoa(b), <<"\n", " ">> \o btoa(b) \o <<"\n">>} :
                        b \in TextsOver({0, 255}, n)
                               \cup {<<1, 0, 0, 0>>, <<120, 86, 52, 146>>}}}

\* decode on a text that reads as CSV and on one that reads as base64
DecodeCalls ==
    {[fn |-> "decode", data |-> d, encoding |-> e, compression |-> c] :
        d \in {<<"1", ",", "7", "\n">>, btoa(<<1, 0, 0, 128>>)},
        e \in {"csv", "base64", "none", "xml", "lzw", Absent},
        c \in {Absent, "none", "gzip", "zlib"}}

InitDecode ==
    /\ LoaderInit
    /\ call \in CsvCalls(MaxCsvLen) \cup B64Calls(MaxBytes) \cup DecodeCalls
    /\ result = NoResult /\ draw = [phase |-> "none"]
    /\ texture = NoTexture

DecodeCSV ==
    /\ call.fn = "decodeCSV" /\ ~result.done
    /\ result' = Returned(decodeCSV(call.input))
    /\ UNCHANGED <<loader, call, draw, texture>>

DecodeBase64AsArray ==
    /\ call.fn = "decodeBase64AsArray" /\ ~result.done
    /\ result' = decodeBase64AsArray(call.input, call.bytes)
    /\ UNCHANGED <<loader, call, draw, texture>>

Decode ==
    /\ call.fn = "decode" /\ ~result.done
    /\ result' = decode(call.data, call.encoding, call.compression)
    /\ UNCHANGED <<loader, call, draw, texture>>

NextDecode == DecodeCSV \/ DecodeBase64AsArray \/ Decode

\* the tile data decoders applied to one input
SpecDecode == InitDecode /\ [][NextDecode]_vars

\* ======================================================================
\* TMXUtils (src/unnamed/part_000): property values
\* ======================================================================
\* a value of the program: a text, a number, a boolean, the object a JSON
\* text denotes ("object"), what an expression evaluated to ("evaluated"),
\* or the pair {x, y} of one number ("pair")
JSValue(t, str, num, bool) == [t |-> t, str |-> str, num |-> num, bool |-> bool]

StrV(str) == JSValue("string", str, NaN, FALSE)

NumV(num) == JSValue("number", <<>>, num, FALSE)

BoolV(bool) == JSValue("boolean", <<>>, NaN, bool)

\* stringUtil.isBoolean: the text is a boolean literal
isBoolean(str) == str \in {<<"t", "r", "u", "e">>, <<"f", "a", "l", "s", "e">>}

\* stringUtil.isNumeric: the text is a numeric literal
isNumeric(str) == trim(str) # <<>> /\ ~ToNumber(str).nan

\* value.search(re) === 0 for re = /^json:/i or /^eval:/i, word being
\* "json:" or "eval:" in lower case
startsWithI(str, word) ==
    LET upper == <<"J", "S", "O", "N", "E", "V", "A", "L">>
        lower == <<"j", "s", "o", "n", "e", "v", "a", "l">>
        low(c) == IF \E i \in DOMAIN upper : upper[i] = c
                  THEN lower[CHOOSE i \in DOMAIN upper : upper[i] = c]
                  ELSE c
    IN /\ Len(str) >= Len(word)
       /\ \A i \in DOMAIN word : low(str[i]) = word[i]

\* [\da-fA-F]
HexDigits == {"0", "1", "2", "3", "4", "5", "6", "7", "8", "9",
              "a", "b", "c", "d", "e", "f", "A", "B", "C", "D", "E", "F"}

\* the two colour patterns: "#" and 4 hexadecimal digits, or "#" and 8;
\* "#" + match[2] + match[1], and the text itself when neither matches
hexColourUnswapped(str) == str

hexColour(str) ==
    LET hexAfterHash == /\ Len(str) >= 1 /\ str[1] = "#"
                        /\ \A i \in 2..Len(str) : str[i] \in HexDigits
    IN IF hexAfterHash /\ Len(str) = 5
       THEN <<"#">> \o SubSeq(str, 3, 5) \o SubSeq(str, 2, 2)
       ELSE IF hexAfterHash /\ Len(str) = 9
            THEN <<"#">> \o SubSeq(str, 4, 9) \o SubSeq(str, 2, 3)
       ELSE str

\* "normalize values": a number under the name ratio or anchorPoint
\* becomes {x, y}
promoteNever(name, v) == v

promote(name, v) ==
    IF name \in {"ratio", "anchorPoint"} /\ v.t = "number"
    THEN JSValue("pair", <<>>, v.num, FALSE)
    ELSE v

\* setTMXValue(name, type, value).  JSON.parse and eval give the number a
\* text of digits denotes; on any other text env tells whether they accept
\* it.
setTMXValue(name, type, value, env) ==
    LET str == value.str
        rest == SubSeq(str, 6, Len(str))
        untyped ==
            IF str = <<>> \/ isBoolean(str)
            THEN Returned(BoolV(IF str # <<>> THEN str = <<"t", "r", "u", "e">>
                                ELSE TRUE))
            ELSE IF isNumeric(str) THEN Returned(NumV(ToNumber(str)))
            ELSE IF startsWithI(str, <<"j", "s", "o", "n", ":">>)
                 THEN IF isNumeric(rest) THEN Returned(NumV(ToNumber(rest)))
                      ELSE IF env.json THEN Returned(JSValue("object", rest, NaN, FALSE))
                      ELSE Thrown("Unable to parse JSON")
            ELSE IF startsWithI(str, <<"e", "v", "a", "l", ":">>)
                 THEN IF isNumeric(rest) THEN Returned(NumV(ToNumber(rest)))
                      ELSE IF env.eval THEN Returned(JSValue("evaluated", rest, NaN, FALSE))
                      ELSE Thrown("Unable to evaluate")
            ELSE Returned(StrV(hexColour(str)))
    IN IF value.t # "string" THEN Returned(value)
       ELSE CASE type \in {"int", "float"} -> Returned(NumV(ToNumber(str)))
              [] type = "bool" -> Returned(BoolV(str = <<"t", "r", "u", "e">>))
              [] OTHER -> IF untyped.threw THEN untyped
                          ELSE Returned(promote(name, untyped.value))

\* the property values of the runs: "", true, false, 12, x, json:12, JSON:{,
\* json, eval:12, Eval:x, #abc, #1abc, #12aabbcc, #1abg, #12345 and a value
\* that is a number already
PropValues ==
    { StrV(t) : t \in
        { <<>>, <<"t", "r", "u", "e">>, <<"f", "a", "l", "s", "e">>,
          <<"1", "2">>, <<"x">>,
          <<"j", "s", "o", "n", ":", "1", "2">>, <<"J", "S", "O", "N", ":", "{">>,
          <<"j", "s", "o", "n">>,
          <<"e", "v", "a", "l", ":", "1", "2">>, <<"E", "v", "a", "l", ":", "x">>,
          <<"#", "a", "b", "c">>, <<"#", "1", "a", "b", "c">>,
          <<"#", "1", "2", "a", "a", "b", "b", "c", "c">>,
          <<"#", "1", "a", "b", "g">>, <<"#", "1", "2", "3", "4", "5">> } }
      \cup {NumV(Num(5))}

InitProps ==
    /\ LoaderInit
    /\ call \in {[fn |-> "setTMXValue", name |-> n, type |-> t, value |-> v,
                   env |-> [json |-> j, eval |-> e]] :
                    n \in {"ratio", "anchorPoint", "speed"},
                    t \in {Absent, "int", "float", "bool", "string"},
                    v \in PropValues, j \in BOOLEAN, e \in BOOLEAN}
    /\ result = NoResult /\ draw = [phase |-> "none"]
    /\ texture = NoTexture

SetTMXValue ==
    /\ call.fn = "setTMXValue" /\ ~result.done
    /\ result' = setTMXValue(call.name, call.type, call.value, call.env)
    /\ UNCHANGED <<loader, call, draw, texture>>

\* property coercion applied to one value
SpecProps == InitProps /\ [][SetTMXValue]_vars

\* ======================================================================
\* Tile renderers: TMXOrthogonalRenderer
\* (src/src/level/tiled/renderer/TMXOrthogonalRenderer.js) and
\* TMXHexagonalRenderer (src/src/loader/loader.js 769-1270)
\* ======================================================================

\* new Vector2d(): the zero vector.  An optional vector argument v is a
\* sequence of no vector or one, so that v || new Vector2d() is v[1] or Vector2d.
Vector2d == [x |-> 0, y |-> 0]

\* the number a / b for integers a and b > 0, kept exactly as a fraction in
\* lowest terms with a positive denominator
divide(a, b) ==
    LET RECURSIVE gcd(_, _)
        gcd(m, n) == IF n = 0 THEN m ELSE gcd(n, m % n)
        g == gcd(IF a < 0 THEN -a ELSE a, b)
    IN  [n |-> a \div g, d |-> b \div g]

\* Vector2d.floorSelf on a vector of fractions
floorSelf(v) == [x |-> v.x.n \div v.x.d, y |-> v.y.n \div v.y.d]

\* Vector2d.ceilSelf on a vector of fractions
ceilSelf(v) == [x |-> -((-v.x.n) \div v.x.d), y |-> -((-v.y.n) \div v.y.d)]

\* the variant that divides both coordinates by the tile width
pixelToTileCoordsSquare(R, x, y, v) ==
    LET ret == IF v = <<>> THEN Vector2d ELSE v[1]
    IN  [ret EXCEPT !.x = divide(x, R.tilewidth), !.y = divide(y, R.tilewidth)]

\* TMXOrthogonalRenderer.pixelToTileCoords(x, y, v) of the renderer R
pixelToTileCoords(R, x, y, v) ==
    LET ret == IF v = <<>> THEN Vector2d ELSE v[1]
    IN  [ret EXCEPT !.x = divide(x, R.tilewidth), !.y = divide(y, R.tileheight)]

\* TMXOrthogonalRenderer.tileToPixelCoords(x, y, v) of the renderer R
tileToPixelCoords(R, x, y, v) ==
    LET ret == IF v = <<>> THEN Vector2d ELSE v[1]
    IN  [ret EXCEPT !.x = x * R.tilewidth, !.y = y * R.tileheight]

\* the render orders drawTileLayer distinguishes; the first is the default
RenderOrders == <<"right-down", "right-up", "left-down", "left-up">>

\* drawTileLayer up to its main loop: the start and end tile and the two
\* increments (TMXOrthogonalRenderer.js 94-134)
drawTileLayerRange(R, layer, rect) ==
    LET max0(a) == IF a > 0 THEN a ELSE 0
        start == floorSelf(pixelToTileCoords(R,
                    max0(rect.pos.x - (layer.maxTileSize.width - layer.tilewidth)),
                    max0(rect.pos.y - (layer.maxTileSize.height - layer.tileheight)),
                    <<Vector2d>>))
        ceiled == ceilSelf(pixelToTileCoords(R,
                    rect.pos.x + rect.width + R.tilewidth,
                    rect.pos.y + rect.height + R.tileheight,
                    <<Vector2d>>))
        end == [x |-> IF ceiled.x > R.cols THEN R.cols ELSE ceiled.x,
                y |-> IF ceiled.y > R.rows THEN R.rows ELSE ceiled.y]
        swapX == layer.renderorder \in {"left-down", "left-up"}
        swapY == layer.renderorder \in {"right-up", "left-up"}
    IN  [start |-> [x |-> IF swapX THEN end.x ELSE start.x,
                    y |-> IF swapY THEN end.y ELSE start.y],
         end   |-> [x |-> IF swapX THEN start.x ELSE end.x,
                    y |-> IF swapY THEN start.y ELSE end.y],
         incX  |-> IF swapX THEN -1 ELSE 1,
         incY  |-> IF swapY THEN -1 ELSE 1]

\* ------------------------------------------------- TMXHexagonalRenderer
\* offsetsStaggerX and offsetsStaggerY (loader.js 777-788)
offsetsStaggerX ==
    <<[x |-> 0, y |-> 0], [x |-> 1, y |-> -1], [x |-> 1, y |-> 0], [x |-> 2, y |-> 0]>>

offsetsStaggerY ==
    <<[x |-> 0, y |-> 0], [x |-> -1, y |-> 1], [x |-> 0, y |-> 1], [x |-> 0, y |-> 2]>>

\* new TMXHexagonalRenderer(map) for a map of orientation "hexagonal".  The
\* side offsets, the column width and the row height can be half-integers;
\* they are kept in half pixels (twice their value), and so is every pixel
\* coordinate the hexagonal renderer takes or returns.
TMXHexagonalRenderer(map) ==
    LET tilewidth   == map.tilewidth - (map.tilewidth % 2)
        tileheight  == map.tileheight - (map.tileheight % 2)
        staggerX    == map.staggeraxis = "x"
        sidelengthx == IF staggerX THEN map.hexsidelength ELSE 0
        sidelengthy == IF staggerX THEN 0 ELSE map.hexsidelength
        sideoffsetx == tilewidth - sidelengthx
        sideoffsety == tileheight - sidelengthy
    IN  [cols |-> map.cols, rows |-> map.rows,
         tilewidth |-> tilewidth, tileheight |-> tileheight,
         staggerX |-> staggerX, staggerEven |-> map.staggerindex = "even",
         sidelengthx |-> sidelengthx, sidelengthy |-> sidelengthy,
         sideoffsetx |-> sideoffsetx, sideoffsety |-> sideoffsety,
         columnwidth |-> sideoffsetx + 2 * sidelengthx,
         rowheight   |-> sideoffsety + 2 * sidelengthy]

\* the variant that staggers the odd columns whatever the stagger index
doStaggerXOdd(R, x) == R.staggerX /\ (x % 2 = 1)

\* doStaggerX(x): staggerX && (x & 1) ^ staggerEven
doStaggerX(R, x) == R.staggerX /\ ((x % 2 = 1) # R.staggerEven)

\* doStaggerY(y): !staggerX && (y & 1) ^ staggerEven
doStaggerY(R, y) == ~R.staggerX /\ ((y % 2 = 1) # R.staggerEven)

\* TMXHexagonalRenderer.pixelToTileCoords(x, y) in half pixels
\* (loader.js 998-1078): the nearest of four hexagon centres, the first of
\* them on a tie
hexPixelToTileCoords(R, x, y) ==
    LET px == IF R.staggerX
              THEN x - (IF R.staggerEven THEN 2 * R.tilewidth ELSE R.sideoffsetx)
              ELSE x
        py == IF R.staggerX
              THEN y
              ELSE y - (IF R.staggerEven THEN 2 * R.tileheight ELSE R.sideoffsety)
        refX == px \div (R.columnwidth * 2)
        refY == py \div (R.rowheight * 2)
        rel  == [x |-> px - refX * (R.columnwidth * 2),
                 y |-> py - refY * (R.rowheight * 2)]
        ref  == IF R.staggerX
                THEN [x |-> refX * 2 + (IF R.staggerEven THEN 1 ELSE 0), y |-> refY]
                ELSE [x |-> refX, y |-> refY * 2 + (IF R.staggerEven THEN 1 ELSE 0)]
        left    == R.sidelengthx
        top     == R.sidelengthy
        centerX == IF R.staggerX THEN left + R.columnwidth ELSE R.tilewidth
        centerY == IF R.staggerX THEN R.tileheight ELSE top + R.rowheight
        centers ==
            IF R.staggerX
            THEN <<[x |-> left, y |-> centerY],
                   [x |-> centerX, y |-> centerY - R.rowheight],
                   [x |-> centerX, y |-> centerY + R.rowheight],
                   [x |-> centerX + R.columnwidth, y |-> centerY]>>
            ELSE <<[x |-> centerX, y |-> top],
                   [x |-> centerX - R.columnwidth, y |-> centerY],
                   [x |-> centerX + R.columnwidth, y |-> centerY],
                   [x |-> centerX, y |-> centerY + R.rowheight]>>
        length2(i) == (centers[i].x - rel.x) * (centers[i].x - rel.x)
                      + (centers[i].y - rel.y) * (centers[i].y - rel.y)
        nearest == CHOOSE i \in 1..4 :
                      /\ \A j \in 1..4 : length2(i) <= length2(j)
                      /\ \A j \in 1..(i - 1) : length2(j) > length2(i)
        offsets == IF R.staggerX THEN offsetsStaggerX ELSE offsetsStaggerY
    IN  [x |-> ref.x + offsets[nearest].x, y |-> ref.y + offsets[nearest].y]

\* TMXHexagonalRenderer.tileToPixelCoords(x, y) for integer x and y, in half
\* pixels (loader.js 1084-1104)
hexTileToPixelCoords(R, x, y) ==
    IF R.staggerX
    THEN [x |-> x * R.columnwidth,
          y |-> y * 2 * (R.tileheight + R.sidelengthy)
                + (IF doStaggerX(R, x) THEN R.rowheight ELSE 0)]
    ELSE [x |-> x * 2 * (R.tilewidth + R.sidelengthx)
                + (IF doStaggerY(R, y) THEN R.columnwidth ELSE 0),
          y |-> y * R.rowheight]

\* ---------------------------------------------- calls into the renderers
\* a round trip tileToPixelCoords then pixelToTileCoords on one renderer, or
\* one layer drawn by the orthogonal renderer under each render order in turn
InitRender ==
    /\ LoaderInit
    /\ result = NoResult /\ draw = [phase |-> "none"]
    /\ texture = NoTexture
    /\ call \in
        {[fn |-> "roundTrip", orientation |-> "orthogonal", at |-> "corner",
          map |-> [cols |-> MaxTile + 1, rows |-> MaxTile + 1,
                   tilewidth |-> w, tileheight |-> h],
          c |-> c, r |-> r, v |-> v] :
            w \in 1..MaxTileSize, h \in 1..MaxTileSize,
            c \in 0..MaxTile, r \in 0..MaxTile,
            v \in {<<>>, <<[x |-> 7, y |-> 7]>>}}
        \cup
        {[fn |-> "roundTrip", orientation |-> "hexagonal", at |-> at,
          map |-> [cols |-> MaxTile + 1, rows |-> MaxTile + 1,
                   tilewidth |-> w, tileheight |-> h, hexsidelength |-> s,
                   staggeraxis |-> axis, staggerindex |-> index],
          c |-> c, r |-> r, v |-> <<>>] :
            at \in {"corner", "centre"},
            w \in 2..(MaxTileSize + 2), h \in 2..(MaxTileSize + 2), s \in 0..2,
            axis \in {"x", "y"}, index \in {"even", "odd"},
            c \in 0..MaxTile, r \in 0..MaxTile}
        \cup
        {[fn |-> "drawTileLayer",
          map |-> [cols |-> cols, rows |-> rows, tilewidth |-> 2, tileheight |-> 2],
          layer |-> [tilewidth |-> 2, tileheight |-> 2,
                     maxTileSize |-> [width |-> mw, height |-> 2]],
          rect |-> [pos |-> [x |-> px, y |-> py], width |-> rw, height |-> 2]] :
            cols \in 1..MaxTile, rows \in 1..MaxTile, mw \in {2, 4},
            px \in {-6, 0, 2, 6}, py \in {-6, 0, 6}, rw \in {1, 2}}

\* the first half of a round trip: tileToPixelCoords(c, r, v)
TileToPixelCoords ==
    /\ call.fn = "roundTrip" /\ draw.phase = "none"
    /\ draw' = [phase |-> "pixel",
                pos |-> IF call.orientation = "orthogonal"
                        THEN tileToPixelCoords(call.map, call.c, call.r, call.v)
                        ELSE hexTileToPixelCoords(TMXHexagonalRenderer(call.map),
                                                  call.c, call.r)]
    /\ UNCHANGED <<loader, call, result, texture>>

\* the second half: pixelToTileCoords of the pixel just computed (into the
\* same container), or of the centre of the tile whose corner it is
PixelToTileCoords ==
    /\ call.fn = "roundTrip" /\ draw.phase = "pixel" /\ ~result.done
    /\ result' =
        IF call.orientation = "orthogonal"
        THEN Returned(pixelToTileCoords(call.map, draw.pos.x, draw.pos.y,
                          IF call.v = <<>> THEN <<>> ELSE <<draw.pos>>))
        ELSE LET R == TMXHexagonalRenderer(call.map)
                 centre == call.at = "centre"
             IN  Returned(hexPixelToTileCoords(R,
                     draw.pos.x + (IF centre THEN R.tilewidth ELSE 0),
                     draw.pos.y + (IF centre THEN R.tileheight ELSE 0)))
    /\ UNCHANGED <<loader, call, draw, texture>>

\* drawTileLayer(renderer, layer, rect) up to its main loop, for the next
\* render order of the layer
DrawTileLayer ==
    /\ call.fn = "drawTileLayer"
    /\ draw.phase = "none" \/ (draw.phase = "done" /\ draw.k < Len(RenderOrders))
    /\ LET k == IF draw.phase = "none" THEN 1 ELSE draw.k + 1
           range == drawTileLayerRange(call.map,
                        [tilewidth |-> call.layer.tilewidth,
                         tileheight |-> call.layer.tileheight,
                         maxTileSize |-> call.layer.maxTileSize,
                         renderorder |-> RenderOrders[k]],
                        call.rect)
       IN  draw' = [phase |-> "row", k |-> k,
                    start |-> range.start, end |-> range.end,
                    incX |-> range.incX, incY |-> range.incY,
                    x |-> range.start.x, y |-> range.start.y,
                    visited |-> IF draw.phase = "none"
                                THEN [i \in DOMAIN RenderOrders |-> {}]
                                ELSE draw.visited]
    /\ UNCHANGED <<loader, call, result, texture>>

\* the test of the outer loop: y !== end.y
DrawRow ==
    /\ draw.phase = "row"
    /\ draw.y \in (-MaxCoord)..MaxCoord
    /\ draw' = IF draw.y # draw.end.y
               THEN [draw EXCEPT !.phase = "cell", !.x = draw.start.x]
               ELSE [draw EXCEPT !.phase = "done"]
    /\ UNCHANGED <<loader, call, result, texture>>

\* the test of the inner loop, x !== end.x, with layer.cellAt(x, y, false)
\* and x += incX when it holds and y += incY when it does not
DrawCell ==
    /\ draw.phase = "cell"
    /\ draw.x \in (-MaxCoord)..MaxCoord
    /\ draw' = IF draw.x # draw.end.x
               THEN [draw EXCEPT !.visited[draw.k] = @ \cup {<<draw.x, draw.y>>},
                                 !.x = @ + draw.incX]
               ELSE [draw EXCEPT !.phase = "row", !.y = @ + draw.incY]
    /\ UNCHANGED <<loader, call, result, texture>>

NextRender ==
    \/ TileToPixelCoords
    \/ PixelToTileCoords
    \/ DrawTileLayer
    \/ DrawRow
    \/ DrawCell

\* coordinate conversions and tile layer drawing
SpecRender == InitRender /\ [][NextRender]_vars

\* ======================================================================
\* Texture atlas (src/unnamed/part_000 427-775)
\* ======================================================================
\* A Map is the sequence of its entries in insertion order; a value that may
\* be undefined or null is a sequence of no value or one.  The names of the
\* model are registered names or composite keys of four integers.  A region
\* is written with its name, texture, offset, size and uvs; its anchor point,
\* trim flag and angle are set once and read by none of the operations here.

\* Map.prototype.set(key, value)
mapSet(m, key, value) ==
    IF \E i \in DOMAIN m : m[i].key = key
    THEN [i \in DOMAIN m |-> IF m[i].key = key
                             THEN [key |-> key, value |-> value] ELSE m[i]]
    ELSE Append(m, [key |-> key, value |-> value])

\* the text of a non-negative integer below 100 ("" + n)
toString(n) ==
    LET digits == <<"0", "1", "2", "3", "4", "5", "6", "7", "8", "9">>
    IN  IF n < 10 THEN <<digits[n + 1]>>
        ELSE <<digits[(n \div 10) + 1], digits[(n % 10) + 1]>>

\* addUvsMap(atlas, frame, w, h) under the WebGL renderer (webgl) or the
\* Canvas renderer: the atlas afterwards
addUvsMap(webgl, atlas, frame, w, h) ==
    IF ~webgl THEN atlas
    ELSE LET s   == atlas[frame].offset
             sw  == atlas[frame].width
             sh  == atlas[frame].height
             reg == [atlas[frame] EXCEPT !.uvs =
                        <<divide(s.x, w), divide(s.y, h),
                          divide(s.x + sw, w), divide(s.y + sh, h)>>]
             key == toString(s.x) \o <<",">> \o toString(s.y) \o <<",">>
                    \o toString(w) \o <<",">> \o toString(h)
         IN  [k \in DOMAIN atlas \cup {key} |->
                 IF k \in {frame, key} THEN reg ELSE atlas[k]]

\* parse(data): the atlas of a packer export
parse(webgl, data) ==
    LET image == IF data.meta[1].image = <<>> THEN <<"default">>
                 ELSE data.meta[1].image
        atlas[n \in 0..Len(data.frames)] ==
            IF n = 0 THEN <<>>
            ELSE LET frame == data.frames[n]
                     named == [k \in DOMAIN atlas[n - 1] \cup {frame.filename} |->
                                  IF k = frame.filename
                                  THEN [name |-> frame.filename, texture |-> image,
                                        offset |-> [x |-> frame.frame.x, y |-> frame.frame.y],
                                        width |-> frame.frame.w, height |-> frame.frame.h,
                                        uvs |-> <<>>]
                                  ELSE atlas[n - 1][k]]
                 IN  IF frame.filename = <<>> THEN atlas[n - 1]
                     ELSE addUvsMap(webgl, named, frame.filename,
                                    data.meta[1].size.w, data.meta[1].size.h)
    IN  atlas[Len(data.frames)]

\* the variant that truncates each dimension on its own account
spriteSheetSizeEach(data) ==
    LET image == data.image[1]
        cellw == data.framewidth + data.spacing
        cellh == data.frameheight + data.spacing
        spritecount == [x |-> (image.width - data.margin + data.spacing) \div cellw,
                        y |-> (image.height - data.margin + data.spacing) \div cellh]
        cutW  == image.width % cellw # 0
                 /\ spritecount.x * cellw - image.width # data.spacing
        cutH  == image.height % cellh # 0
                 /\ spritecount.y * cellh - image.height # data.spacing
    IN  [spritecount |-> spritecount, truncated |-> cutW \/ cutH,
         width  |-> IF cutW THEN spritecount.x * cellw ELSE image.width,
         height |-> IF cutH THEN spritecount.y * cellh ELSE image.height]

\* parseFromSpriteSheet(data) up to its loop (part_000 576-607): the sprite
\* count, the effective size and whether the truncation was logged.  ~~
\* truncates a quotient that is never negative here.
spriteSheetSize(data) ==
    LET image == data.image[1]
        cellw == data.framewidth + data.spacing
        cellh == data.frameheight + data.spacing
        spritecount == [x |-> (image.width - data.margin + data.spacing) \div cellw,
                        y |-> (image.height - data.margin + data.spacing) \div cellh]
        computed_width  == spritecount.x * cellw
        computed_height == spritecount.y * cellh
        truncate == /\ (image.width % cellw # 0 \/ image.height % cellh # 0)
                    /\ computed_width - image.width # data.spacing
                    /\ computed_height - image.height # data.spacing
    IN  [spritecount |-> spritecount, truncated |-> truncate,
         width  |-> IF truncate THEN computed_width ELSE image.width,
         height |-> IF truncate THEN computed_height ELSE image.height]

\* parseFromSpriteSheet(data): the atlas of a fixed-cell spritesheet
parseFromSpriteSheet(webgl, data) ==
    LET size  == spriteSheetSize(data)
        cols  == size.spritecount.x
        count == size.spritecount.x * size.spritecount.y
        atlas[n \in 0..count] ==
            IF n = 0 THEN <<>>
            ELSE LET frame == n - 1
                     name  == toString(frame)
                     named == [k \in DOMAIN atlas[n - 1] \cup {name} |->
                                  IF k = name
                                  THEN [name |-> name, texture |-> <<"default">>,
                                        offset |-> [x |-> data.margin
                                                      + (data.spacing + data.framewidth) * (frame % cols),
                                                    y |-> data.margin
                                                      + (data.spacing + data.frameheight) * (frame \div cols)],
                                        width |-> data.framewidth,
                                        height |-> data.frameheight,
                                        uvs |-> <<>>]
                                  ELSE atlas[n - 1][k]]
                 IN  addUvsMap(webgl, named, name, size.width, size.height)
    IN  atlas[count]

\* this.atlases.length: a Map has a size and no length property
atlasesLength(atlases) == [def |-> FALSE, num |-> 0]

\* new Texture(atlases, src) with the cache argument left out; found is what
\* loader.getImage returns
Texture(webgl, atlases, src, found) ==
    LET known(app) == app \cap {"texturepacker", "free-tex-packer"} # {}
        this[n \in 0..Len(atlases)] ==
            IF n = 0 THEN Returned([NoTexture EXCEPT !.made = TRUE])
            ELSE IF this[n - 1].threw THEN this[n - 1]
            ELSE LET t     == this[n - 1].value
                     atlas == atlases[n]
                     key   == IF atlas.meta = <<>> \/ atlas.meta[1].image = <<>>
                              THEN <<"default">> ELSE atlas.meta[1].image
                     parsed(s) == [s EXCEPT !.atlases = mapSet(@, key, parse(webgl, atlas))]
                 IN  IF atlas.meta # <<>>
                     THEN IF known(atlas.meta[1].app)
                          THEN IF src = <<>> /\ found = <<>>
                               THEN Thrown("Atlas texture 'null' not found")
                               ELSE Returned(parsed(
                                      [t EXCEPT !.format = "texturepacker",
                                                !.sources = mapSet(@,
                                                    IF src = <<>> THEN atlas.meta[1].image ELSE key,
                                                    IF src = <<>> THEN found ELSE src)]))
                          ELSE IF "ShoeBox" \in atlas.meta[1].app
                          THEN IF ~atlas.meta[1].exporter
                               THEN Thrown("ShoeBox requires the JSON exporter")
                               ELSE Returned(parsed(
                                      [t EXCEPT !.format = "ShoeBox",
                                                !.sources = mapSet(@, <<"default">>, src)]))
                          ELSE IF "melonJS" \in atlas.meta[1].app
                          THEN Returned(parsed(
                                      [t EXCEPT !.format = "melonJS",
                                                !.sources = mapSet(@, <<"default">>, src)]))
                          ELSE Returned(parsed(t))
                     ELSE IF atlas.sheet # <<>>
                     THEN LET data  == [atlas.sheet[1] EXCEPT !.image =
                                           IF src # <<>> THEN src ELSE @]
                              sheet == spriteSheetSize(data)
                          IN  Returned(
                                [t EXCEPT !.format = "Spritesheet (fixed cell size)",
                                          !.atlases = mapSet(@, <<"default">>,
                                                             parseFromSpriteSheet(webgl, data)),
                                          !.sources = mapSet(@, <<"default">>, data.image),
                                          !.log = IF sheet.truncated
                                                  THEN Append(@, [width |-> sheet.width,
                                                                  height |-> sheet.height])
                                                  ELSE @])
                     ELSE Returned(t)
        built == this[Len(atlases)]
    IN  IF built.threw THEN built
        ELSE IF atlasesLength(built.value.atlases).def
                /\ atlasesLength(built.value.atlases).num = 0
        THEN Thrown("texture atlas format not supported")
        ELSE Returned([built.value EXCEPT !.cache =
                          [i \in DOMAIN built.value.sources |-> built.value.sources[i].value]])

\* getAtlas(name): the named atlas, or the first one when no name is given;
\* no atlas (undefined) is the empty sequence
getAtlas(t, name) ==
    IF name # <<>>
    THEN IF \E i \in DOMAIN t.atlases : t.atlases[i].key = name[1]
         THEN <<t.atlases[CHOOSE i \in DOMAIN t.atlases : t.atlases[i].key = name[1]].value>>
         ELSE <<>>
    ELSE IF t.atlases = <<>> THEN <<>> ELSE <<t.atlases[1].value>>

\* getRegion(name, atlas): forEach assigns the region of every atlas that
\* holds the name, so the last of them is returned
getRegion(t, name, atlas) ==
    IF atlas # <<>>
    THEN IF getAtlas(t, atlas) = <<>> THEN Thrown("TypeError")
         ELSE IF name \in DOMAIN getAtlas(t, atlas)[1]
              THEN Returned(<<getAtlas(t, atlas)[1][name]>>)
              ELSE Returned(<<>>)
    ELSE LET holders == {i \in DOMAIN t.atlases : name \in DOMAIN t.atlases[i].value}
         IN  IF holders = {} THEN Returned(<<>>)
             ELSE Returned(<<t.atlases[CHOOSE i \in holders :
                                \A j \in holders : i >= j].value[name]>>)

\* addQuadRegion(name, x, y, w, h): the texture afterwards, or the TypeError
\* of source.width when the texture has no source
addQuadRegion(webgl, t, name, x, y, w, h) ==
    IF t.sources = <<>> \/ t.sources[1].value = <<>> \/ t.atlases = <<>>
    THEN Thrown("TypeError")
    ELSE LET source == t.sources[1].value[1]
             atlas  == t.atlases[1].value
             named  == [k \in DOMAIN atlas \cup {name} |->
                           IF k = name
                           THEN [name |-> name, texture |-> <<>>,
                                 offset |-> [x |-> x, y |-> y],
                                 width |-> w, height |-> h, uvs |-> <<>>]
                           ELSE atlas[k]]
         IN  Returned([t EXCEPT !.atlases[1].value =
                          addUvsMap(webgl, named, name, source.width, source.height)])

\* the variant that returns the rectangle of a synthesised region without
\* keeping the region
getUVsUncached(webgl, t, name) ==
    LET region == getRegion(t, name, <<>>).value
        keys   == split(name, ",")
        key(i) == IF i <= Len(keys) THEN ToNumber(keys[i]).num ELSE 0
        added  == addQuadRegion(webgl, t, name, key(1), key(2), key(3), key(4))
    IN  IF region # <<>>
        THEN [texture |-> t, result |-> Returned(region[1].uvs)]
        ELSE IF added.threw
        THEN [texture |-> t, result |-> added]
        ELSE [texture |-> t,
              result  |-> Returned(added.value.atlases[1].value[name].uvs)]

\* getUVs(name): the texture afterwards and the uvs returned
getUVs(webgl, t, name) ==
    LET region == getRegion(t, name, <<>>).value
        keys   == split(name, ",")
        key(i) == IF i <= Len(keys) THEN ToNumber(keys[i]).num ELSE 0
        added  == addQuadRegion(webgl, t, name, key(1), key(2), key(3), key(4))
    IN  IF region # <<>>
        THEN [texture |-> t, result |-> Returned(region[1].uvs)]
        ELSE IF added.threw
        THEN [texture |-> t, result |-> added]
        ELSE [texture |-> added.value,
              result  |-> Returned(added.value.atlases[1].value[name].uvs)]

\* ------------------------------------------------- calls into the atlas
\* the descriptors handed to the constructor: packer exports of two tools
\* that share the name h, a ShoeBox export with and without the melonJS
\* exporter, a single-region wrapper, an export of an unknown tool, an empty
\* object, and fixed-cell spritesheets
AtlasDescriptors ==
    LET frame(n, x, y) == [filename |-> n, frame |-> [x |-> x, y |-> y, w |-> 2, h |-> 2]]
        export(app, exporter, image, frames) ==
            [meta |-> <<[app |-> app, exporter |-> exporter, image |-> image,
                         size |-> [w |-> 4, h |-> 4]]>>,
             frames |-> frames, sheet |-> <<>>]
    IN  {export({"texturepacker"}, FALSE, <<"a">>,
                <<frame(<<"h">>, 0, 0), frame(<<"t">>, 2, 0)>>),
         export({"free-tex-packer"}, FALSE, <<"b">>,
                <<frame(<<"h">>, 0, 2), frame(<<>>, 0, 0)>>),
         export({"ShoeBox"}, TRUE, <<>>, <<frame(<<"s">>, 2, 2)>>),
         export({"ShoeBox"}, FALSE, <<>>, <<frame(<<"s">>, 2, 2)>>),
         export({"melonJS"}, FALSE, <<"default">>, <<frame(<<"h">>, 0, 0)>>),
         export({}, FALSE, <<"c">>, <<frame(<<"h">>, 2, 2)>>),
         [meta |-> <<>>, frames |-> <<>>, sheet |-> <<>>]}
        \cup
        {[meta |-> <<>>, frames |-> <<>>,
          sheet |-> <<[framewidth |-> fw, frameheight |-> 2, spacing |-> sp,
                       margin |-> mg, image |-> <<[width |-> w, height |-> h]>>]>>] :
            fw \in {2, 3}, sp \in {0, 1}, mg \in {0, 1},
            w \in 4..MaxImage, h \in 4..MaxImage}

InitAtlas ==
    /\ LoaderInit
    /\ result = NoResult /\ draw = [phase |-> "none"] /\ texture = NoTexture
    /\ call \in {[fn |-> "Texture", webgl |-> webgl, atlases |-> atlases,
                  src |-> io[1], found |-> io[2], op |-> "none",
                  name |-> <<>>, atlas |-> <<>>] :
                    webgl \in BOOLEAN,
                    atlases \in
                        UNION {[1..n -> {d \in AtlasDescriptors : d.sheet = <<>>}] :
                                  n \in 1..MaxAtlases}
                        \cup {<<d>> : d \in {s \in AtlasDescriptors : s.sheet # <<>>}},
                    io \in {<<<<>>, <<>>>>,
                            <<<<>>, <<[width |-> 4, height |-> 4]>>>>,
                            <<<<[width |-> 4, height |-> 4]>>, <<>>>>}}

\* new Texture(atlases, src)
NewTexture ==
    /\ call.fn = "Texture" /\ call.op = "none"
    /\ LET built == Texture(call.webgl, call.atlases, call.src, call.found)
       IN  /\ result' = IF built.threw THEN built ELSE Returned(<<>>)
           /\ texture' = IF built.threw THEN texture ELSE built.value
    /\ call' = [call EXCEPT !.op = "new"]
    /\ UNCHANGED <<loader, draw>>

\* texture.getRegion(name, atlas)
GetRegion(name, atlas) ==
    /\ call.fn = "Texture" /\ texture.made
    /\ call' = [call EXCEPT !.op = "getRegion", !.name = name, !.atlas = atlas]
    /\ result' = getRegion(texture, name, atlas)
    /\ UNCHANGED <<loader, draw, texture>>

\* texture.getUVs(name), called with a registered name or a composite key
GetUVs(name) ==
    /\ call.fn = "Texture" /\ texture.made
    /\ Len(name) > 1 \/ getRegion(texture, name, <<>>).value # <<>>
    /\ call' = [call EXCEPT !.op = "getUVs", !.name = name, !.atlas = <<>>]
    /\ result' = getUVs(call.webgl, texture, name).result
    /\ texture' = getUVs(call.webgl, texture, name).texture
    /\ UNCHANGED <<loader, draw>>

NextAtlas ==
    \/ NewTexture
    \/ \E name \in {<<"h">>, <<"0">>, <<"0", ",", "2", ",", "2", ",", "2">>} :
          \/ \E atlas \in {<<>>, <<<<"a">>>>, <<<<"default">>>>} :
                GetRegion(name, atlas)
          \/ GetUVs(name)

\* atlas construction and region lookup
SpecAtlas == InitAtlas /\ [][NextAtlas]_vars

\* ======================================================================
\* TMXUtils markup normalisation (src/unnamed/part_000 81-95, 188-329)
\* ======================================================================
\* A JavaScript object is a function from property names to values, and a
\* value carries its kind: "text" (a string), "array", "object",
\* "property" (what setTMXValue returned) or "undefined".
Val(t, v) == [t |-> t, v |-> v]

\* obj[k] = v
put(obj, k, v) == [x \in DOMAIN obj \cup {k} |-> IF x = k THEN v ELSE obj[x]]

\* parseAttributes(obj, elt): every attribute copied onto obj
parseAttributes(obj, elt) ==
    LET copied[j \in 0..Len(elt.attributes)] ==
            IF j = 0 THEN obj
            ELSE put(copied[j - 1], elt.attributes[j].name,
                     Val("text", elt.attributes[j].value))
    IN  copied[Len(elt.attributes)]

\* the variant that tags a layer with its node name
layerTypeSame(nodeName) == nodeName

\* nodeName === "layer" ? "tilelayer" : nodeName
layerType(nodeName) == IF nodeName = "layer" THEN "tilelayer" ELSE nodeName

RECURSIVE parseXML(_)
RECURSIVE normalize(_, _)

\* normalize(obj, item): obj afterwards, or what was thrown
normalize(obj, item) ==
    LET nodeName == item.nodeName
        parsed   == parseXML(item)
        p        == parsed.value
        get(o, k) == IF k \in DOMAIN o THEN o[k] ELSE Val("undefined", <<>>)
        truthy(v) == v.t = "object" \/ (v.t = "text" /\ v.v # <<>>)
        of(v, k)  == IF v.t = "object" THEN get(v.v, k) ELSE Val("undefined", <<>>)
        pushed(k, v) ==
            IF get(obj, k).t = "array"
            THEN Returned(put(obj, k, Val("array", obj[k].v \o <<v>>)))
            ELSE IF truthy(get(obj, k)) THEN Thrown("TypeError")
            ELSE Returned(put(obj, k, Val("array", <<v>>)))
        flat == IF truthy(get(p, "image"))
                THEN put(put(put(p, "imagewidth", of(p["image"], "width")),
                             "imageheight", of(p["image"], "height")),
                         "image", of(p["image"], "source"))
                ELSE p
        text == IF truthy(get(p, "text")) THEN p["text"]
                ELSE of(get(p, "chunk"), "text")
        encoding == IF truthy(get(p, "encoding")) THEN p["encoding"].v[1] ELSE "xml"
        compression == IF "compression" \in DOMAIN p
                       THEN (IF p["compression"].v = <<>> THEN ""
                             ELSE p["compression"].v[1])
                       ELSE Absent
        decoded == decode(text.v, encoding, compression)
        points == split(get(p, "points").v, " ")
        name == IF get(p, "name").t = "text" THEN p["name"].v[1] ELSE "undefined"
        property == setTMXValue(name,
                                IF truthy(get(p, "type")) THEN p["type"].v[1] ELSE "string",
                                StrV(IF "value" \in DOMAIN p THEN p["value"].v
                                     ELSE get(p, "text").v),
                                [json |-> TRUE, eval |-> TRUE])
    IN  IF parsed.threw THEN parsed
        ELSE CASE nodeName = "data" ->
                    IF ~truthy(get(p, "text")) /\ get(p, "chunk").t # "object"
                    THEN Thrown("TypeError")
                    ELSE IF text.t = "undefined" /\ encoding \in {"csv", "base64"}
                    THEN Thrown("TypeError")
                    ELSE IF decoded.threw THEN decoded
                    ELSE Returned(put(put(obj, "data", Val("array", decoded.value)),
                                      "encoding", Val("text", <<"none">>)))
               [] nodeName \in {"imagelayer", "layer", "objectgroup", "group"} ->
                    LET typed == put(p, "type", Val("text", <<layerType(nodeName)>>))
                        layer == IF truthy(get(typed, "image"))
                                 THEN put(typed, "image", of(typed["image"], "source"))
                                 ELSE typed
                    IN  pushed("layers", Val("object", layer))
               [] nodeName = "animation" ->
                    Returned(put(obj, "animation", get(p, "frames")))
               [] nodeName = "frame" ->
                    pushed("frames", Val("object", p))
               [] nodeName = "object" ->
                    pushed("objects", Val("object", p))
               [] nodeName = "tile" ->
                    Returned(put(obj, "tiles",
                        Val("object",
                            put(IF truthy(get(obj, "tiles")) THEN obj["tiles"].v ELSE <<>>,
                                get(flat, "id").v, Val("object", flat)))))
               [] nodeName = "tileset" ->
                    pushed("tilesets", Val("object", flat))
               [] nodeName \in {"polygon", "polyline"} ->
                    IF get(p, "points").t # "text" THEN Thrown("TypeError")
                    ELSE Returned(put(obj, nodeName,
                            Val("array",
                                [i \in DOMAIN points |->
                                    LET v == split(points[i], ",")
                                    IN  [x |-> ToNumber(v[1]),
                                         y |-> IF Len(v) > 1 THEN ToNumber(v[2]) ELSE NaN]])))
               [] nodeName = "properties" ->
                    Returned(put(obj, "properties", Val("object", p)))
               [] nodeName = "property" ->
                    IF property.threw THEN property
                    ELSE Returned(put(obj, name,
                                      Val("property", property.value)))
               [] OTHER -> Returned(put(obj, nodeName, Val("object", p)))

\* TMXUtils parse(xml): the object of an element, or what was thrown
parseXML(xml) ==
    LET children == xml.childNodes
        step[i \in 0..Len(children)] ==
            IF i = 0
            THEN [obj |-> Returned(IF xml.nodeType = 1
                                   THEN parseAttributes(<<>>, xml) ELSE <<>>),
                  text |-> <<>>]
            ELSE IF step[i - 1].obj.threw THEN step[i - 1]
            ELSE IF children[i].nodeType = 1
                 THEN [step[i - 1] EXCEPT !.obj = normalize(@.value, children[i])]
            ELSE IF children[i].nodeType = 3
                 THEN [step[i - 1] EXCEPT !.text = @ \o trim(children[i].nodeValue)]
            ELSE step[i - 1]
        last == step[Len(children)]
    IN  IF last.obj.threw \/ last.text = <<>> THEN last.obj
        ELSE Returned(put(last.obj.value, "text", Val("text", last.text)))

\* the markup handed to parse: an owner element with up to MaxChildren
\* children drawn from layers of each kind, tile data in each encoding, an
\* object, a tileset with an image, a polygon and a property
Markup ==
    LET elt(name, attributes, childNodes) ==
            [nodeName |-> name, nodeType |-> 1, attributes |-> attributes,
             childNodes |-> childNodes, nodeValue |-> <<>>]
        txt(str) == [nodeName |-> "#text", nodeType |-> 3, attributes |-> <<>>,
                     childNodes |-> <<>>, nodeValue |-> str]
        att(name, str) == [name |-> name, value |-> str]
        csv == elt("data", <<att("encoding", <<"csv">>)>>,
                   <<txt(<<" ", "1", ",", "7", "\n">>)>>)
        kids ==
            {elt("layer", <<att("name", <<"l">>), att("type", <<"x">>)>>, <<csv>>),
             elt("imagelayer", <<att("name", <<"i">>)>>,
                 <<elt("image", <<att("source", <<"p">>), att("width", <<"4">>)>>, <<>>)>>),
             elt("objectgroup", <<att("name", <<"o">>)>>,
                 <<elt("object", <<att("id", <<"1">>)>>,
                       <<elt("polygon", <<att("points", <<"0", ",", "0", " ", "1", ",", "2">>)>>,
                             <<>>)>>)>>),
             elt("group", <<att("name", <<"g">>)>>,
                 <<elt("layer", <<att("name", <<"n">>)>>, <<csv>>)>>),
             csv,
             elt("data", <<att("encoding", <<"base64">>)>>,
                 <<txt(<<"A", "Q", "A", "A", "A", "A", "=", "=">>)>>),
             elt("data", <<att("encoding", <<"base64">>), att("compression", <<"gzip">>)>>,
                 <<txt(<<"A", "Q", "A", "A", "A", "A", "=", "=">>)>>),
             elt("data", <<>>, <<elt("tile", <<att("id", <<"3">>)>>, <<>>)>>),
             elt("data", <<att("encoding", <<"csv">>)>>,
                 <<elt("chunk", <<>>, <<txt(<<"7">>)>>)>>),
             elt("tileset", <<att("name", <<"s">>)>>,
                 <<elt("image", <<att("source", <<"p">>), att("width", <<"4">>)>>, <<>>)>>),
             elt("properties", <<>>,
                 <<elt("property", <<att("name", <<"speed">>), att("value", <<"1", "2">>)>>,
                       <<>>)>>)}
    IN  {elt("map", <<att("encoding", <<"csv">>)>>, childNodes) :
            childNodes \in UNION {[1..n -> kids] : n \in 0..MaxChildren}}

InitParse ==
    /\ LoaderInit
    /\ result = NoResult /\ draw = [phase |-> "none"] /\ texture = NoTexture
    /\ call \in {[fn |-> "parse", xml |-> xml] : xml \in Markup}

Parse ==
    /\ call.fn = "parse" /\ ~result.done
    /\ result' = parseXML(call.xml)
    /\ UNCHANGED <<loader, call, draw, texture>>

\* markup parsed into the canonical object
SpecParse == InitParse /\ [][Parse]_vars

\* ======================================================================
\* TMXHexagonalRenderer.drawTileLayer (src/src/loader/loader.js 1143-1266)
\* ======================================================================
\* the tile drawTileLayer starts from: the tile under the rectangle's corner,
\* one row up and one column left when the corner lies in the tile's upper
\* and left half, and not below 0 (loader.js 1146-1188, 1222-1224)
hexStartTile(R, layer, rect) ==
    LET max0(a) == IF a > 0 THEN a ELSE 0
        back(startTile) ==
            LET startPos == hexTileToPixelCoords(R, startTile.x + layer.pos.x,
                                                    startTile.y + layer.pos.y)
                inUpperHalf == 2 * rect.pos.y - startPos.y < R.sideoffsety
                inLeftHalf  == 2 * rect.pos.x - startPos.x < R.sideoffsetx
            IN  [x |-> max0(startTile.x - (IF inLeftHalf THEN 1 ELSE 0)),
                 y |-> max0(startTile.y - (IF inUpperHalf THEN 1 ELSE 0))]
        sub(v) == [x |-> v.x - layer.pos.x, y |-> v.y - layer.pos.y]
    IN  back(sub(hexPixelToTileCoords(R, 2 * rect.pos.x, 2 * rect.pos.y)))

\* drawTileLayer(renderer, layer, rect): the coordinates handed to
\* layer.cellAt, as a set.  The rectangle is given in pixels and compared
\* in half pixels.  Within a row the position and the tile index only grow,
\* so a row queries the tiles of every step k whose position and index pass
\* the loop's test.
hexDrawTileLayer(R, layer, rect) ==
    LET right  == 2 * (rect.pos.x + rect.width)
        bottom == 2 * (rect.pos.y + rect.height)
        endX == layer.cols
        endY == layer.rows
        advance == 2 * (R.tilewidth + R.sidelengthx)
        row(tileX, tileY, posX, inc) ==
            {<<tileX + inc * k, tileY>> :
                k \in {j \in 0..(endX + 1) :
                         posX + j * advance < right /\ tileX + inc * j < endX}}
        runs(s) == s.pos.y < bottom /\ s.tile.y < endY
        \* staggered on x: the passes of the loop from the state s on
        RECURSIVE zigzag(_)
        zigzag(s) ==
            IF ~runs(s) THEN {}
            ELSE row(s.tile.x, s.tile.y, s.pos.x, 2) \cup
                 zigzag(IF s.staggeredRow
                        THEN [tile |-> [x |-> s.tile.x - 1, y |-> s.tile.y + 1],
                              pos |-> [x |-> s.pos.x - R.columnwidth,
                                       y |-> s.pos.y + R.rowheight],
                              staggeredRow |-> FALSE]
                        ELSE [tile |-> [x |-> s.tile.x + 1, y |-> s.tile.y],
                              pos |-> [x |-> s.pos.x + R.columnwidth,
                                       y |-> s.pos.y + R.rowheight],
                              staggeredRow |-> TRUE])
        \* staggered on y: the passes of the loop over the rows
        RECURSIVE lines(_)
        lines(s) ==
            IF ~runs(s) THEN {}
            ELSE row(s.tile.x, s.tile.y,
                     s.pos.x + (IF doStaggerY(R, s.tile.y) THEN R.columnwidth ELSE 0), 1)
                 \cup lines([tile |-> [x |-> s.tile.x, y |-> s.tile.y + 1],
                             pos |-> [x |-> s.pos.x, y |-> s.pos.y + R.rowheight]])
        walk(startTile, startPos) ==
            IF R.staggerX
            THEN zigzag([tile |-> startTile, pos |-> startPos,
                         staggeredRow |-> doStaggerX(R, startTile.x + layer.pos.x)])
            ELSE lines([tile |-> startTile,
                        pos |-> [x |-> startPos.x - (IF doStaggerY(R, startTile.y)
                                                     THEN R.columnwidth ELSE 0),
                                 y |-> startPos.y]])
        from(startTile) ==
            walk(startTile, hexTileToPixelCoords(R, startTile.x + layer.pos.x,
                                                    startTile.y + layer.pos.y))
    IN  from(hexStartTile(R, layer, rect))

\* a hexagonal layer of up to MaxTile + 1 columns and rows of 4x4 pixel
\* tiles with a side of 2 pixels, and rectangles inside, across and outside it
InitHexDraw ==
    /\ LoaderInit
    /\ result = NoResult /\ draw = [phase |-> "none"] /\ texture = NoTexture
    /\ call \in
        {[fn |-> "hexDrawTileLayer",
          map |-> [cols |-> cols, rows |-> rows, tilewidth |-> 4, tileheight |-> 4,
                   hexsidelength |-> 2, staggeraxis |-> axis, staggerindex |-> index],
          layer |-> [cols |-> cols, rows |-> rows, pos |-> [x |-> 0, y |-> 0]],
          rect |-> [pos |-> [x |-> px, y |-> py], width |-> w, height |-> h]] :
            cols \in 1..(MaxTile + 1), rows \in 1..(MaxTile + 1),
            axis \in {"x", "y"}, index \in {"even", "odd"},
            px \in {-3, 0, 3, 9}, py \in {-3, 0, 3, 9},
            w \in {4, 12}, h \in {4, 12}}

HexDrawTileLayer ==
    /\ call.fn = "hexDrawTileLayer" /\ ~result.done
    /\ result' = Returned(hexDrawTileLayer(TMXHexagonalRenderer(call.map),
                                           call.layer, call.rect))
    /\ UNCHANGED <<loader, call, draw, texture>>

\* hexagonal tile layers drawn
SpecHexDraw == InitHexDraw /\ [][HexDrawTileLayer]_vars

\* ------------------------------------------------------- derived quantities
\* no handler is running and no fetch or timer is pending
Quiescent ==
    cur = Idle /\ inFlight = {} /\ pollQueue = <<>> /\ settleQueue = <<>>

\* every resource of the b-th preload has been loaded
AllLoaded(b) == cur.b # b /\ loadedOf(b) = Len(batches[b].res)

\* invocations of a completion callback on behalf of the b-th preload
callbacksOf(b) ==
    Cardinality({k \in DOMAIN eventLog :
                    eventLog[k].ev = "callback" /\ eventLog[k].b = b})

\* descriptors the k-th preload added to resourceCount: those before the
\* first one load() throws on
registeredBy(k) ==
    LET res == batches[k].res
        bad == {i \in DOMAIN res : res[i].type \notin Kinds}
    IN IF bad = {} THEN Len(res)
       ELSE (CHOOSE i \in bad : \A j \in bad : i <= j) - 1

\* resources registered by the preload calls 1..b
registeredUpTo(b) ==
    LET S[k \in 0..b] == IF k = 0 THEN 0 ELSE S[k-1] + registeredBy(k)
    IN S[b]

\* the progress entries of the b-th preload, in emission order
progressOf(b) == SelectSeq(progressLog, LAMBDA e : e.b = b)

\* p <= q for fractions num/den with num > 0 and den >= 0 (1/0 is Infinity)
FracLeq(p, q) == p.num * q.den <= q.num * p.den

\* ------------------------------------------------------------------- C1
\* C1: for every call of preload that is given a completion callback and
\* whose resources all load, that callback is invoked exactly once: never
\* twice for the call, and, once nothing is pending any more, not zero times
\* (an invocation of it on behalf of any call counts).
invocationsOf(fn) ==
    Cardinality({k \in DOMAIN eventLog :
                    eventLog[k].ev = "callback" /\ eventLog[k].fn = fn})

C1_CallbackExactlyOnce ==
    \A b \in DOMAIN batches :
        /\ callbacksOf(b) <= 1
        /\ (batches[b].cb /\ AllLoaded(b) /\ Quiescent) => invocationsOf(b) >= 1

\* ------------------------------------------------------------------- C2
\* C2: in every reachable state, resourceCount >= loadCount.
C2_ResourceCountAtLeastLoadCount == resourceCount >= loadCount

\* ------------------------------------------------------------------- C3
\* C3 as stated: when the completion callback of a batch runs, loadCount
\* and resourceCount both equal the size of that batch.
C3_CountersEqualBatchSize ==
    \A k \in DOMAIN eventLog :
        eventLog[k].ev = "callback" =>
            /\ eventLog[k].lc = eventLog[k].rc
            /\ eventLog[k].lc = Len(batches[eventLog[k].b].res)

\* C3 amended: when the completion callback of the b-th preload runs,
\* loadCount <= resourceCount and loadCount is at least the number of
\* resources registered by the preload calls 1..b; when no later preload
\* has been called, loadCount = resourceCount = that cumulative number.
C3_CountersCumulative ==
    \A k \in DOMAIN eventLog :
        LET e == eventLog[k] IN
        e.ev = "callback" =>
            /\ e.lc <= e.rc
            /\ e.lc >= registeredUpTo(e.b)
            /\ (e.nb = e.b => e.lc = e.rc /\ e.rc = registeredUpTo(e.b))

\* a second batch's callback has run with counters above that batch's size
C3_Witness ==
    \E k \in DOMAIN eventLog :
        LET e == eventLog[k] IN
        /\ e.ev = "callback" /\ e.b = 2 /\ e.nb = 2
        /\ e.lc = e.rc /\ e.lc > Len(batches[2].res)
        /\ Len(batches[2].res) > 0

\* ------------------------------------------------------------------- C4
\* C4: a completion callback runs only from the settle timer, which only a
\* status check that saw loadCount = resourceCount arms; when it runs no
\* resource of its batch is in flight or unloaded; LOADER_COMPLETE follows
\* each callback invocation, once.
C4_StateOrdering ==
    /\ Len(eventLog) % 2 = 0
    /\ \A k \in DOMAIN eventLog :
          IF k % 2 = 1
          THEN /\ eventLog[k].ev = "callback"
               /\ ~eventLog[k].busy
               /\ eventLog[k].left = 0
          ELSE /\ eventLog[k].ev = "LOADER_COMPLETE"
               /\ eventLog[k].b = eventLog[k-1].b
    /\ \A k \in DOMAIN settleQueue :
          \A r \in inFlight : r.owner # settleQueue[k].b

C4_StepOrdering ==
    /\ eventLog' # eventLog =>
          /\ cur = Idle /\ settleQueue # <<>>
          /\ settleQueue' = Tail(settleQueue)
          /\ Len(eventLog') = Len(eventLog) + 2
          /\ eventLog'[Len(eventLog) + 1].b = Head(settleQueue).b
    /\ Len(settleQueue') > Len(settleQueue) =>
          statusMatch(loadCount, resourceCount)

C4_CompletionOrdering == [](C4_StateOrdering) /\ [][C4_StepOrdering]_vars

\* a callback has run for a batch of two fetched resources
C4_Witness ==
    \E k \in DOMAIN eventLog :
        /\ eventLog[k].ev = "callback"
        /\ Len(batches[eventLog[k].b].res) = 2
        /\ \A i \in 1..2 : ~batches[eventLog[k].b].res[i].data

\* ------------------------------------------------------------------- C5
\* C5: within one preload batch the progress fractions never decrease from
\* one completed resource to the next, and the fraction passed for the last
\* completed resource of the batch is exactly 1.0.
C5_ProgressMonotoneToOne ==
    \A b \in DOMAIN batches :
        LET p == progressOf(b) IN
        /\ \A k \in 1..(Len(p) - 1) : FracLeq(p[k], p[k+1])
        /\ (AllLoaded(b) /\ Len(p) > 0) =>
               (p[Len(p)].num = p[Len(p)].den /\ p[Len(p)].den > 0)

\* ------------------------------------------------------------------- C6
\* C6: LOADER_PROGRESS (and onProgress, once defined) fires exactly once per
\* successfully completed resource registered by preload, with that
\* resource's descriptor, in the order in which the fetches completed.
idRes(q) == [k \in DOMAIN q |-> <<q[k].id, q[k].res>>]

C6_ProgressInCompletionOrder ==
    idRes(progressLog) = idRes(SelectSeq(completionLog, LAMBDA r : r.owner > 0))

\* two resources of one batch have reported progress in the order opposite
\* to the order of their requests
C6_Witness ==
    \E j, k \in DOMAIN progressLog :
        /\ j < k
        /\ progressLog[j].b = progressLog[k].b
        /\ progressLog[j].id > progressLog[k].id

\* ------------------------------------------------------------------- C7
\* C7: a failed fetch invokes the resource's onError with the descriptor's
\* name, and no error propagates out of the loader.
C7_OnErrorByNameNoThrow ==
    /\ \A k \in DOMAIN errorLog : errorLog[k].arg = "name"
    /\ \A k \in DOMAIN uncaught : uncaught[k].msg # "Failed loading resource"

\* ------------------------------------------------------------------- C8
\* C8: load returns weight 1 for every recognized kind; for an unrecognized
\* kind it throws, starts no fetch, invokes no callback and leaves every
\* cache and both counters unchanged.
C8_LoadStep ==
    (nLoads' = nLoads + 1 \/ cur.phase = "load") =>
        /\ lastCall'.op = "load"
        /\ lastCall'.res.type \in Kinds =>
              /\ ~lastCall'.threw
              /\ lastCall'.weight = 1
              /\ nextId' = nextId + 1
        /\ lastCall'.res.type \notin Kinds =>
              /\ lastCall'.threw
              /\ UNCHANGED <<caches, counters, inFlight, nextId, logs>>

C8_LoadWeightOrThrow == [][C8_LoadStep]_vars

\* load has thrown on an unrecognized kind while a fetch was in flight and
\* the counters were not zero
C8_Witness ==
    /\ lastCall.op = "load" /\ lastCall.threw
    /\ lastCall.res.type \notin Kinds
    /\ resourceCount > 0 /\ inFlight # {}

\* ------------------------------------------------------------------- C9
\* C9: a poll that finds loadCount = resourceCount with no completion
\* callback (none passed to preload, loader.onload undefined) throws the
\* configuration error; it invokes no callback, emits no completion and
\* arms no further poll.
C9_PollStep ==
    ( /\ cur = Idle /\ cur' = Idle
      /\ pollQueue # <<>> /\ pollQueue' # pollQueue
      /\ loadCount = resourceCount
      /\ cbOf(Head(pollQueue)) = 0 /\ onload = 0 ) =>
        /\ uncaught' = Append(uncaught,
              [msg |-> "no load callback defined", id |-> Head(pollQueue)])
        /\ pollQueue' = Tail(pollQueue)
        /\ UNCHANGED <<eventLog, settleQueue>>

C9_AfterError ==
    \A k \in DOMAIN uncaught :
        uncaught[k].msg = "no load callback defined" =>
            /\ callbacksOf(uncaught[k].id) = 0
            /\ \A j \in DOMAIN pollQueue : pollQueue[j] # uncaught[k].id
            /\ \A j \in DOMAIN settleQueue : settleQueue[j].b # uncaught[k].id

C9_NoCallbackIsAnError == [](C9_AfterError) /\ [][C9_PollStep]_vars

\* the error was raised by a poll: the batch had a fetched resource, which
\* was loaded
C9_Witness ==
    \E k \in DOMAIN uncaught :
        /\ uncaught[k].msg = "no load callback defined"
        /\ \E j \in DOMAIN progressLog :
              progressLog[j].b = uncaught[k].id /\ ~progressLog[j].res.data

\* ------------------------------------------------------------------ C10
\* C10: for every recognized kind, unload returns true if and only if an
\* entry of that name was present in the kind's cache (and the call removed
\* it).
C10_UnloadTrueIffPresent ==
    (lastCall.op = "unload" /\ lastCall.res.type \in Kinds) =>
        /\ lastCall.removed = lastCall.had
        /\ lastCall.res.name \notin cacheOf(lastCall.res.type)

\* ------------------------------------------------------------------ C11
\* C11: after unloadAll() has returned, having been called with no fetch in
\* flight, getImage, getJSON, getTMX and getBinary return null for every
\* name (names loaded as kind tsx included), and keep doing so until a
\* later load completes.
C11_NullAfterUnloadAll ==
    cleared =>
        \A n \in Names :
            /\ getImage(n) = Null /\ getJSON(n) = Null
            /\ getTMX(n) = Null /\ getBinary(n) = Null

\* ------------------------------------------------------------------ C12
\* C12: the URL a load requests is the base path registered for the
\* descriptor's kind followed by the descriptor's src, or src alone when none
\* is registered; after setBaseURL("*", url) every kind except fontface has
\* url as its base, whatever was registered before, and the base of
\* fontface is what it was.
C12_LoadStep ==
    \A r \in inFlight' \ inFlight :
        r.url = (IF baseURL[r.res.type].def THEN baseURL[r.res.type].str ELSE <<>>)
                    \o srcOf[r.res]

C12_AfterWildcard ==
    (baseCall.n > 0 /\ baseCall.type = "*") =>
        /\ \A k \in Kinds \ {"fontface"} : baseURL[k] = baseCall.url
        /\ baseURL["fontface"] = baseCall.font

C12_URLResolution == [](C12_AfterWildcard) /\ [][C12_LoadStep]_vars

\* after a per-kind base for image and then a different wildcard base, an
\* image is requested under the wildcard base while the base of fontface is
\* not set
C12_Witness ==
    /\ baseCall.n = 2 /\ baseCall.type = "*" /\ baseCall.url.def
    /\ ~baseURL["fontface"].def
    /\ \E r \in inFlight :
          /\ r.res.type = "image"
          /\ r.url = baseCall.url.str \o <<r.res.name>>

\* ------------------------------------------------------------------ C13
\* C13: decode(data, encoding, compression) fails with the unsupported
\* format error whenever compression is a value other than absent or "none",
\* for each of the encodings "csv", "base64" and "none", and returns no tile
\* array then.
C13_CompressedAlwaysFails ==
    ( /\ call.fn = "decode" /\ result.done
      /\ call.encoding \in {"csv", "base64", "none"}
      /\ call.compression \notin {Absent, "none"} ) =>
        /\ result.threw
        /\ result.error = "GZIP/ZLIB compressed TMX Tile Map not supported!"

\* ------------------------------------------------------------------ C14
\* C14: decodeCSV returns one element per comma-separated entry of its
\* input, in order, so commas + 1 elements; an entry that is a numeric
\* literal (digits, blanks around them allowed) gives that number, every
\* other entry, an empty one included, gives NaN.
C14_OneNumberPerEntry ==
    (call.fn = "decodeCSV" /\ result.done) =>
        LET str == call.input
            bounds == {0, Len(str) + 1} \cup {i \in DOMAIN str : str[i] = ","}
            boundAt(k) == CHOOSE p \in bounds :
                             Cardinality({q \in bounds : q < p}) = k - 1
            entryAt(k) == SubSeq(str, boundAt(k) + 1, boundAt(k + 1) - 1)
            n == Cardinality(bounds) - 1
        IN /\ ~result.threw
           /\ Len(result.value) = n
           /\ \A k \in 1..n :
                 IF trim(entryAt(k)) # <<>> /\ ~ToNumber(entryAt(k)).nan
                 THEN result.value[k] = ToNumber(entryAt(k))
                 ELSE result.value[k] = NaN

\* ------------------------------------------------------------------ C15
\* C15: decodeBase64AsArray(input, 4) packs each 4 decoded bytes b0, b1, b2,
\* b3, in input order, into b0 + b1*2^8 + b2*2^16 + b3*2^24, for every byte
\* value, b3 >= 128 included; each element is in 0 .. 2^32 - 1.
C15_LittleEndianUnsigned ==
    (call.fn = "decodeBase64AsArray" /\ result.done /\ ~result.threw) =>
        LET dec == atob(stripNonB64(call.input)) IN
        /\ Len(result.value) = Len(dec) \div 4
        /\ \A i \in DOMAIN result.value :
              /\ result.value[i] = [hi |-> dec[4 * i] * 256 + dec[4 * i - 1],
                                     lo |-> dec[4 * i - 2] * 256 + dec[4 * i - 3]]
              /\ result.value[i].hi \in 0..(Half - 1)
              /\ result.value[i].lo \in 0..(Half - 1)

\* two groups were decoded, the first with b3 >= 128 and differing from the
\* second, out of a text with line breaks around it
C15_Witness ==
    /\ call.fn = "decodeBase64AsArray" /\ result.done /\ ~result.threw
    /\ Len(call.input) > Len(stripNonB64(call.input))
    /\ Len(result.value) = 2
    /\ atob(stripNonB64(call.input))[4] >= 128
    /\ result.value[1] # result.value[2]

\* ------------------------------------------------------------------ C16
\* the result the rules give for a text: a boolean literal, a numeric
\* literal, "json:", "eval:", a colour, else the text itself; with amended,
\* the empty text gives true first, a colour is "#" and 4 or 8 hexadecimal
\* digits instead of 3 or 4, and a number under the name ratio or
\* anchorPoint becomes a pair
C16_ByRules(amended) ==
    LET str == call.value.str
        rest == SubSeq(str, 6, Len(str))
        isTrue == str = <<"t", "r", "u", "e">>
        literal == trim(str) # <<>> /\ ~ToNumber(str).nan
        colour == /\ Len(str) \in (IF amended THEN {5, 9} ELSE {4, 5})
                  /\ str[1] = "#"
                  /\ \A i \in 2..Len(str) : str[i] \in HexDigits
        got == result.value
        final(v) == IF amended /\ call.name \in {"ratio", "anchorPoint"} /\ v.t = "number"
                    THEN JSValue("pair", <<>>, v.num, FALSE) ELSE v
    IN CASE call.type = "bool" -> result = Returned(BoolV(isTrue))
         [] call.type \in {"int", "float"} -> result = Returned(NumV(ToNumber(str)))
         [] call.type = Absent ->
              IF amended /\ str = <<>> THEN result = Returned(BoolV(TRUE))
              ELSE IF isTrue \/ str = <<"f", "a", "l", "s", "e">>
                   THEN result = Returned(BoolV(isTrue))
              ELSE IF literal THEN result = Returned(final(NumV(ToNumber(str))))
              ELSE IF startsWithI(str, <<"j", "s", "o", "n", ":">>)
                   THEN \/ result.threw /\ result.error = "Unable to parse JSON"
                        \/ ~result.threw /\ got.t = "object" /\ got.str = rest
                        \/ ~result.threw /\ got = final(NumV(ToNumber(rest)))
              ELSE IF startsWithI(str, <<"e", "v", "a", "l", ":">>)
                   THEN \/ result.threw /\ result.error = "Unable to evaluate"
                        \/ ~result.threw /\ got.t = "evaluated" /\ got.str = rest
                        \/ ~result.threw /\ got = final(NumV(ToNumber(rest)))
              ELSE IF colour THEN ~result.threw /\ got.t = "string" /\ Len(got.str) > 0
              ELSE result = Returned(StrV(str))
         [] OTHER -> TRUE

\* C16 as stated: an untyped text is coerced by the first matching rule of
\* the order boolean literal, numeric literal, "json:", "eval:", shorthand
\* hex colour, and is returned unchanged when none matches; with type "bool"
\* the result is true iff the text is "true", with "int" or "float" it is
\* the numeric parse.
C16_FirstMatchingRule ==
    (call.fn = "setTMXValue" /\ result.done /\ call.value.t = "string") =>
        C16_ByRules(FALSE)

\* C16 amended: as stated, except that the empty text gives true before any
\* rule is tried, that the colour rule is for "#" and 4 or 8 hexadecimal
\* digits, and that a number the rules give for a property named ratio or
\* anchorPoint becomes the pair {x, y} of that number.
C16_FirstMatchingRuleOrEmpty ==
    (call.fn = "setTMXValue" /\ result.done /\ call.value.t = "string") =>
        C16_ByRules(TRUE)

\* the untyped text 12 of a property named ratio was coerced
C16_Witness ==
    /\ call.fn = "setTMXValue" /\ result.done
    /\ call.type = Absent /\ call.name = "ratio"
    /\ call.value = StrV(<<"1", "2">>)
    /\ result.value.t = "pair"

C18_OrthogonalRoundTrip ==
    (call.fn = "roundTrip" /\ call.orientation = "orthogonal" /\ result.done)
        => /\ ~result.threw
           /\ result.value = [x |-> [n |-> call.c, d |-> 1],
                              y |-> [n |-> call.r, d |-> 1]]

\* a round trip of tile (2, 1) through a caller's container on a renderer
\* whose tiles are 3 wide and 2 high has returned
C18_Witness ==
    /\ call.fn = "roundTrip" /\ call.orientation = "orthogonal" /\ result.done
    /\ call.v # <<>> /\ call.c = 2 /\ call.r = 1
    /\ call.map.tilewidth = 3 /\ call.map.tileheight = 2
    /\ draw.pos = [x |-> 6, y |-> 2]

C20_SameCoordinatesInBounds ==
    (call.fn = "drawTileLayer" /\ draw.phase # "none") =>
        LET drawn == {k \in DOMAIN RenderOrders :
                        k < draw.k \/ (k = draw.k /\ draw.phase = "done")}
        IN  /\ \A j \in drawn, k \in drawn : draw.visited[j] = draw.visited[k]
            /\ \A k \in DOMAIN RenderOrders : \A p \in draw.visited[k] :
                  /\ 0 <= p[1] /\ p[1] < call.map.cols
                  /\ 0 <= p[2] /\ p[2] < call.map.rows

\* C21: constructing a Texture from one descriptor of unrecognised shape
\* (metadata naming no known tool, or neither metadata nor framewidth and
\* frameheight) fails with the unsupported-format error and registers no
\* atlas and no source.
C21_UnrecognisedShapeFails ==
    (call.fn = "Texture" /\ call.op = "new" /\ Len(call.atlases) = 1
     /\ call.atlases[1].sheet = <<>>
     /\ (call.atlases[1].meta = <<>> \/ call.atlases[1].meta[1].app = {}))
        => /\ result.threw
           /\ result.error = "texture atlas format not supported"
           /\ texture.atlases = <<>> /\ texture.sources = <<>>

\* C22: getRegion(name) without an atlas name returns the frame of the
\* earliest-registered atlas that holds the name; when no atlas holds it, or
\* a named atlas is given that lacks it or does not exist, it returns the
\* not-found signal without throwing.
C22_FirstAtlasWins ==
    (call.fn = "Texture" /\ call.op = "getRegion") =>
        LET holders == {i \in DOMAIN texture.atlases :
                           call.name \in DOMAIN texture.atlases[i].value}
            named   == {i \in DOMAIN texture.atlases :
                           texture.atlases[i].key = call.atlas[1]}
        IN  /\ ~result.threw
            /\ call.atlas = <<>> /\ holders # {} =>
                  \E i \in holders :
                     /\ \A j \in holders : i <= j
                     /\ result.value = <<texture.atlases[i].value[call.name]>>
            /\ call.atlas = <<>> /\ holders = {} => result.value = <<>>
            /\ call.atlas # <<>> /\ named \cap holders = {} => result.value = <<>>

\* what C23 says of one call of getUVs, on the textures `covered`
C23_Step(covered) ==
    (call'.op = "getUVs" /\ covered) =>
        LET name == call'.name
        IN  IF getRegion(texture, name, <<>>).value = <<>>
            THEN /\ ~result'.threw
                 /\ texture'.atlases # <<>>
                 /\ name \in DOMAIN texture'.atlases[1].value
                 /\ result'.value # <<>>
                 /\ result'.value = texture'.atlases[1].value[name].uvs
                 /\ getRegion(texture', name, <<>>) =
                        Returned(<<texture'.atlases[1].value[name]>>)
                 /\ getUVs(call.webgl, texture', name) =
                        [texture |-> texture', result |-> result']
            ELSE /\ texture' = texture
                 /\ result' = Returned(getRegion(texture, name, <<>>).value[1].uvs)

\* C23: getUVs(name) on a name that was never registered synthesises a
\* region from the composite key, stores it in the atlas under that name and
\* returns its UV rectangle; afterwards getRegion(name) returns the stored
\* region and a second getUVs(name) returns the same rectangle without adding
\* a region; getUVs on a registered name never adds a region.
C23_LazyRegion == [][C23_Step(TRUE)]_vars

\* C23 as amended: the same under the WebGL renderer on a texture whose
\* first source is an image.
C23_LazyRegionWebGL ==
    [][C23_Step(/\ call.webgl
                /\ texture.sources # <<>>
                /\ texture.sources[1].value # <<>>)]_vars

\* getUVs of the composite key 0,2,2,2 has synthesised a region under the
\* WebGL renderer and returned its rectangle
C23_Witness ==
    /\ call.fn = "Texture" /\ call.op = "getUVs" /\ call.webgl
    /\ call.name = <<"0", ",", "2", ",", "2", ",", "2">>
    /\ ~result.threw /\ Len(result.value) = 4
    /\ call.name \in DOMAIN texture.atlases[1].value
    /\ texture.atlases[1].value[call.name].texture = <<>>
    /\ texture.atlases[1].value[call.name].offset = [x |-> 0, y |-> 2]

\* what C24 says of a Texture built from one spritesheet, with the rule
\* deciding the truncation per dimension (jointly = FALSE, by the remainder)
\* or for both dimensions together (by the excess of the grid)
C24_Sheet(jointly) ==
    (call.fn = "Texture" /\ call.op = "new" /\ call.atlases[1].sheet # <<>>) =>
        LET data  == call.atlases[1].sheet[1]
            image == IF call.src # <<>> THEN call.src[1] ELSE data.image[1]
            cellw == data.framewidth + data.spacing
            cellh == data.frameheight + data.spacing
            cols  == (image.width - data.margin + data.spacing) \div cellw
            rows  == (image.height - data.margin + data.spacing) \div cellh
            offW  == image.width % cellw # 0
            offH  == image.height % cellh # 0
            both  == /\ offW \/ offH
                     /\ cols * cellw - image.width # data.spacing
                     /\ rows * cellh - image.height # data.spacing
            cutW  == IF jointly THEN both
                     ELSE offW /\ image.width % cellw # data.spacing
            cutH  == IF jointly THEN both
                     ELSE offH /\ image.height % cellh # data.spacing
            width  == IF cutW THEN cols * cellw ELSE image.width
            height == IF cutH THEN rows * cellh ELSE image.height
            atlas  == texture.atlases[1].value
        IN  /\ ~result.threw
            /\ texture.log = IF cutW \/ cutH
                             THEN <<[width |-> width, height |-> height]>>
                             ELSE <<>>
            /\ {k \in DOMAIN atlas : \A i \in DOMAIN k : k[i] # ","}
                  = {toString(n) : n \in 0..(cols * rows - 1)}
            /\ \A n \in 0..(cols * rows - 1) :
                  /\ atlas[toString(n)].name = toString(n)
                  /\ atlas[toString(n)].offset =
                        [x |-> data.margin + cellw * (n % cols),
                         y |-> data.margin + cellh * (n \div cols)]
                  /\ call.webgl =>
                        atlas[toString(n)].uvs[3] =
                            divide(atlas[toString(n)].offset.x + data.framewidth, width)

\* C24: the effective image size is truncated to the whole-cell grid exactly
\* when a dimension is not an exact multiple of (cell + spacing) and its
\* remainder is not the spacing, decided per the width and the height;
\* parsing yields columns * rows frames named "0".. in row-major order.
C24_TruncatedPerDimension == C24_Sheet(FALSE)

\* C24 as amended: both dimensions are truncated together, exactly when
\* some dimension is not an exact multiple of (cell + spacing) and neither
\* the grid width exceeds the image width nor the grid height the image
\* height by exactly the spacing.
C24_TruncatedTogether == C24_Sheet(TRUE)

\* a 4 by 4 image cut into cells of 2 by 2 with a spacing of 1 was
\* truncated to 3 by 3
C24_Witness ==
    /\ call.fn = "Texture" /\ call.op = "new" /\ call.src = <<>>
    /\ call.atlases[1].sheet # <<>>
    /\ call.atlases[1].sheet[1].spacing = 1
    /\ call.atlases[1].sheet[1].framewidth = 2
    /\ call.atlases[1].sheet[1].margin = 0
    /\ call.atlases[1].sheet[1].image = <<[width |-> 4, height |-> 4]>>
    /\ texture.log = <<[width |-> 3, height |-> 3]>>

\* C25: when parse returns, the owner's layers list holds one entry for
\* each child of kind layer, imagelayer, objectgroup or group, in document
\* order across the kinds, each with type equal to its node kind except
\* that a layer is typed "tilelayer"; and when the owner had a data child,
\* its encoding is "none" and its data is the decoded tile array of the
\* last data child.
C25_LayersInDocumentOrder ==
    LET kinds == {"layer", "imagelayer", "objectgroup", "group"}
        isLayer(n) == n.nodeName \in kinds
        isData(n) == n.nodeName = "data"
        attr(n, k) == LET i == CHOOSE i \in DOMAIN n.attributes : n.attributes[i].name = k
                      IN  n.attributes[i].value
        textOf(n) == IF n.childNodes[1].nodeType = 3 THEN n.childNodes[1].nodeValue
                     ELSE n.childNodes[1].childNodes[1].nodeValue
        holds(node, obj) ==
            LET layerKids == SelectSeq(node.childNodes, isLayer)
                dataKids == SelectSeq(node.childNodes, isData)
            IN  /\ layerKids # <<>> =>
                    /\ "layers" \in DOMAIN obj /\ obj["layers"].t = "array"
                    /\ Len(obj["layers"].v) = Len(layerKids)
                    /\ \A i \in DOMAIN layerKids :
                          /\ obj["layers"].v[i].v["name"].v = attr(layerKids[i], "name")
                          /\ obj["layers"].v[i].v["type"].v =
                                <<IF layerKids[i].nodeName = "layer" THEN "tilelayer"
                                  ELSE layerKids[i].nodeName>>
                /\ layerKids = <<>> => "layers" \notin DOMAIN obj
                /\ dataKids # <<>> =>
                    /\ obj["encoding"] = Val("text", <<"none">>)
                    /\ obj["data"].t = "array"
                    /\ obj["data"].v =
                         decode(trim(textOf(dataKids[Len(dataKids)])),
                                attr(dataKids[Len(dataKids)], "encoding")[1], Absent).value
    IN  (call.fn = "parse" /\ result.done /\ ~result.threw) =>
            /\ holds(call.xml, result.value)
            /\ \A i \in DOMAIN call.xml.childNodes :
                  call.xml.childNodes[i].nodeName = "group" =>
                    \E j \in DOMAIN result.value["layers"].v :
                        holds(call.xml.childNodes[i], result.value["layers"].v[j].v)

\* parse returned for an image layer, a tile layer whose type attribute
\* said otherwise, and tile data, in that order
C25_Witness ==
    /\ call.fn = "parse" /\ result.done /\ ~result.threw
    /\ Len(call.xml.childNodes) = 3
    /\ call.xml.childNodes[1].nodeName = "imagelayer"
    /\ call.xml.childNodes[2].nodeName = "layer"
    /\ call.xml.childNodes[3].nodeName = "data"
    /\ result.value["layers"].v[2].v["type"].v = <<"tilelayer">>
    /\ result.value["encoding"].v = <<"none">>
    /\ result.value["data"].v = <<Num(1), Num(7)>>

\* C26: once a resource registered through preload has failed (its onerror
\* was invoked), loadCount never again equals resourceCount, and the
\* completion callback of the batch that holds it is never invoked.
C26_NeverEqualAfterFailure ==
    LET failed == {errorLog[k].owner : k \in {j \in DOMAIN errorLog : errorLog[j].owner > 0}}
    IN  failed # {} =>
            /\ loadCount # resourceCount
            /\ \A k \in DOMAIN eventLog : eventLog[k].b \notin failed

\* C27: drawTileLayer terminates for every rectangle and render order.  A
\* loop for (y = start; y !== end; y += inc) ends exactly when end lies at
\* or ahead of y in the direction of inc, so the claim is that while the
\* loops run each counter has its end ahead of it.
C27_LoopsReachTheirEnd ==
    (call.fn = "drawTileLayer" /\ draw.phase \in {"row", "cell"}) =>
        /\ (draw.end.y - draw.y) * draw.incY >= 0
        /\ draw.phase = "cell" => (draw.end.x - draw.x) * draw.incX >= 0

\* C28: getImage, getJSON, getTMX and getBinary return a non-null entry for
\* a name only if a load of that name and kind has delivered its data; they
\* return null while the fetch is in flight and after it has failed.
C28_NonNullOnlyAfterCompletedLoad ==
    LET completed(types, n) ==
            \E k \in DOMAIN completionLog :
                completionLog[k].res.name = n /\ completionLog[k].res.type \in types
    IN  \A n \in Names :
            /\ getImage(n) # Null => completed({"image"}, n)
            /\ getJSON(n) # Null => completed({"json"}, n)
            /\ getTMX(n) # Null => completed({"tmx", "tsx"}, n)
            /\ getBinary(n) # Null => completed({"binary"}, n)

\* C29: hexagonal drawTileLayer hands to cellAt only coordinates inside
\* the layer, 0 <= x < layer.cols and 0 <= y < layer.rows, on both stagger
\* axes and with both stagger parities.
C29_QueriesInsideLayer ==
    (call.fn = "hexDrawTileLayer" /\ result.done) =>
        \A p \in result.value :
            /\ 0 <= p[1] /\ p[1] < call.layer.cols
            /\ 0 <= p[2] /\ p[2] < call.layer.rows

\* C30: two loads of the same descriptor object made while a base path is
\* registered for its kind request the same URL.  (The base paths of
\* SpecReload are registered before the first load and stay.)
C30_SameURLOnReload ==
    LET requests == inFlight \cup {completionLog[k] : k \in DOMAIN completionLog}
    IN  \A q \in requests, r \in requests :
            (q.res = r.res /\ baseURL[q.res.type].def) => q.url = r.url

====
